---- MODULE Spec2Model ----
(***************************************************************************)
(* Model of extract_citations.py: the citation extraction and renumbering  *)
(* pipeline.  Every function of the source that is modelled is a pure      *)
(* function; each becomes an operator computed the way the code computes   *)
(* it, and each specification draws the function's inputs from bounded     *)
(* sets and applies it.                                                    *)
(*                                                                         *)
(* Python dicts are TLA+ functions (DOMAIN = the keys), Python lists are   *)
(* sequences, Python strings are sequences of one-character strings.       *)
(***************************************************************************)
EXTENDS Integers, Sequences, FiniteSets, TLC

\* ------------------------------------------------------------------ bounds

\* Reference numbers of the bibliography are drawn from 1..MaxRef.
MaxRef == 4
\* Length of a list of citation numbers handed to apply_citation_mappings.
MaxLen == 3
\* Keys and values of the arbitrary maps handed to apply_citation_mappings.
MaxKey == 2
\* Length of a list handed to format_numbers_to_citation.
MaxFmtLen == 4
\* The numbers handed to format_numbers_to_citation are 8..(7 + FmtSpan).
FmtSpan == 8
\* Citation markers and Table references of a document's paragraphs.
MaxDocCites == 3
\* Citation markers of one table.
MaxTableCites == 1
\* Reference numbers and citation markers of a whole run of main.
MaxMainRef == 3
MaxMainCites == 2
\* Length of a superscript text handed to parse_citation.
MaxParseLen == 5
\* Tokens of one scope handed to extract_citations_from_runs.
MaxRuns == 4
\* w:r runs of one paragraph of document.xml.
MaxParaRuns == 5
\* w:r runs of one paragraph of a document that is rewritten, and the
\* reference numbers of its bibliography.
MaxRewriteRuns == 4
MaxRewriteRef == 3

\* Longest scope given to the classifier when only merging is at stake.
MaxScopeRuns == 5

\* w:r runs of a paragraph whose citation list is extracted, children of
\* w:body, and rows of a table and cells of a row.
MaxExtractRuns == 4
MaxBody == 5
MaxCells == 2

\* ------------------------------------------------------------------ state

VARIABLES
    pc,            \* position in the pipeline of the specification at hand
    references,    \* keys of the references dict (the texts appear only in similar)
    similar,       \* pairs <<n1, n2>>, n1 < n2, whose SequenceMatcher ratio >= threshold
    duplicates,    \* dup_map: duplicate number -> original number
    max_ref,       \* max(references.keys())
    dense_map,     \* old number -> new dense number
    nums,          \* list of citation numbers handed to a function
    new_nums,      \* the list apply_citation_mappings returned
    citation,      \* the string format_numbers_to_citation returned
    doc_paragraphs,   \* the document: per paragraph, its citation markers and Table references
    doc_tables,       \* the document: per table label, the citation markers of its cells
    table_citations,  \* process_tables result: roman numeral -> citation strings
    paragraph_results,\* process_paragraphs result: per paragraph, its citation strings
    canonical_order,  \* build_canonical_order result
    conversion,       \* build_conversion_table result
    locations,        \* extract_citation_locations result
    plan,             \* generate_modification_plan: per location, new text and change
    written,          \* create_modified_document: per location, the text its runs hold
    sup_text,         \* the combined superscript text handed to parse_citation
    runs,             \* xml_to_runs result: the (text, is_superscript) tokens of a scope
    author_names,     \* the author-name whitelist
    sup_groups,       \* the merged superscript groups extract_citations_from_runs met
    cite_list,        \* the list of citation strings a function returned
    document,         \* document.xml: per paragraph, its w:r runs
    modified,         \* document.xml as create_modified_document writes it back
    body,             \* document.xml: the children of w:body, paragraphs and tables
    para_extracts     \* per w:p, what extract_paragraph_with_citations returned

vars == <<pc, references, similar, duplicates, max_ref, dense_map, nums, new_nums,
          citation, doc_paragraphs, doc_tables, table_citations, paragraph_results,
          canonical_order, conversion, locations, plan, written,
          sup_text, runs, author_names, sup_groups, cite_list, document, modified,
          body, para_extracts>>

xmlVars == <<body, para_extracts>>

runVars == <<sup_text, runs, author_names, sup_groups, cite_list, document, modified>>

dupVars == <<references, similar, duplicates, max_ref, dense_map>>

numVars == <<nums, new_nums, citation>>

docVars == <<doc_paragraphs, doc_tables, table_citations, paragraph_results,
             canonical_order, conversion, locations, plan, written>>

planVars == <<locations, plan, written>>

\* ------------------------------------------------------------------ helpers

\* The empty dict {}.
EmptyDict == [k \in {} |-> 0]

Range(s) == {s[i] : i \in DOMAIN s}

\* d[k] = v on a dict.
DictSet(d, k, v) == [x \in (DOMAIN d) \cup {k} |-> IF x = k THEN v ELSE d[x]]

\* d.get(k, default)
DictGet(d, k, default) == IF k \in DOMAIN d THEN d[k] ELSE default

RECURSIVE InsertSorted(_, _)
InsertSorted(s, x) ==
    IF s = <<>> THEN <<x>>
    ELSE IF x <= Head(s) THEN <<x>> \o s
    ELSE <<Head(s)>> \o InsertSorted(Tail(s), x)

RECURSIVE InsertSortedDesc(_, _)
InsertSortedDesc(s, x) ==
    IF s = <<>> THEN <<x>>
    ELSE IF x >= Head(s) THEN <<x>> \o s
    ELSE <<Head(s)>> \o InsertSortedDesc(Tail(s), x)

RECURSIVE SortedDesc(_)
\* sorted(list, reverse=True)
SortedDesc(s) ==
    IF s = <<>> THEN <<>> ELSE InsertSortedDesc(SortedDesc(Tail(s)), Head(s))

RECURSIVE Sorted(_)
\* sorted(list): ascending, keeps repeated elements.
Sorted(s) == IF s = <<>> THEN <<>> ELSE InsertSorted(Sorted(Tail(s)), Head(s))

RECURSIVE SetToSeq(_)
\* Some enumeration of a set (Python iterates a set in an unspecified order).
SetToSeq(S) ==
    IF S = {} THEN <<>>
    ELSE LET x == CHOOSE y \in S : TRUE IN <<x>> \o SetToSeq(S \ {x})

\* sorted(set(list)) and sorted(dict.keys())
SortedSet(S) == Sorted(SetToSeq(S))

RECURSIVE FilterNotIn(_, _)
\* [n for n in list if n not in keys]
FilterNotIn(s, keys) ==
    IF s = <<>> THEN <<>>
    ELSE IF Head(s) \in keys THEN FilterNotIn(Tail(s), keys)
    ELSE <<Head(s)>> \o FilterNotIn(Tail(s), keys)

RECURSIVE Flatten(_)
Flatten(lists) == IF lists = <<>> THEN <<>> ELSE Head(lists) \o Flatten(Tail(lists))

\* list(range(a, b + 1))
RangeList(a, b) == [i \in 1..(IF b >= a THEN b - a + 1 ELSE 0) |-> a + i - 1]

\* ------------------------------------------------------------------
\* detect_duplicate_references (src lines 155-195)

\* ratio >= threshold for the pair the code compares (n1 before n2).
RatioReaches(sim, n1, n2) == <<n1, n2>> \in sim

RECURSIVE InnerLoopNoSkip(_, _, _, _)
\* Faulty variant: the inner loop without `if n2 in duplicates: continue`.
InnerLoopNoSkip(n1, rest, sim, dups) ==
    IF rest = <<>> THEN dups
    ELSE LET n2 == Head(rest) IN
         IF RatioReaches(sim, n1, n2)
         THEN InnerLoopNoSkip(n1, Tail(rest), sim, DictSet(dups, n2, n1))
         ELSE InnerLoopNoSkip(n1, Tail(rest), sim, dups)

RECURSIVE InnerLoopFirstMatch(_, _, _, _)
\* Faulty variant: the inner loop stops at the first duplicate it records.
InnerLoopFirstMatch(n1, rest, sim, dups) ==
    IF rest = <<>> THEN dups
    ELSE LET n2 == Head(rest) IN
         IF n2 \in DOMAIN dups
         THEN InnerLoopFirstMatch(n1, Tail(rest), sim, dups)
         ELSE IF RatioReaches(sim, n1, n2)
              THEN DictSet(dups, n2, n1)
              ELSE InnerLoopFirstMatch(n1, Tail(rest), sim, dups)

RECURSIVE InnerLoop(_, _, _, _)
\* for n2 in nums[i+1:]
InnerLoop(n1, rest, sim, dups) ==
    IF rest = <<>> THEN dups
    ELSE LET n2 == Head(rest) IN
         IF n2 \in DOMAIN dups
         THEN InnerLoop(n1, Tail(rest), sim, dups)
         ELSE IF RatioReaches(sim, n1, n2)
              THEN InnerLoop(n1, Tail(rest), sim, DictSet(dups, n2, n1))
              ELSE InnerLoop(n1, Tail(rest), sim, dups)

RECURSIVE OuterLoop(_, _, _)
\* for i, n1 in enumerate(nums); lst is nums[i:]
OuterLoop(lst, sim, dups) ==
    IF lst = <<>> THEN dups
    ELSE LET n1 == Head(lst) IN
         IF n1 \in DOMAIN dups
         THEN OuterLoop(Tail(lst), sim, dups)
         ELSE OuterLoop(Tail(lst), sim, InnerLoop(n1, Tail(lst), sim, dups))

RECURSIVE OuterLoopNoSkip(_, _, _)
\* Faulty variant: the outer loop without `if n1 in duplicates: continue`.
OuterLoopNoSkip(lst, sim, dups) ==
    IF lst = <<>> THEN dups
    ELSE OuterLoopNoSkip(Tail(lst), sim, InnerLoop(Head(lst), Tail(lst), sim, dups))

RECURSIVE OuterLoopInnerNoSkip(_, _, _)
\* Faulty variant: the outer loop over the inner loop that overwrites.
OuterLoopInnerNoSkip(lst, sim, dups) ==
    IF lst = <<>> THEN dups
    ELSE LET n1 == Head(lst) IN
         IF n1 \in DOMAIN dups
         THEN OuterLoopInnerNoSkip(Tail(lst), sim, dups)
         ELSE OuterLoopInnerNoSkip(Tail(lst), sim,
                                   InnerLoopNoSkip(n1, Tail(lst), sim, dups))

\* Faulty variant: duplicates are compared again as originals.
detect_chained(refs, sim) == OuterLoopNoSkip(SortedSet(refs), sim, EmptyDict)

\* Faulty variant: a later original overwrites an earlier one.
detect_overwriting(refs, sim) == OuterLoopInnerNoSkip(SortedSet(refs), sim, EmptyDict)

detect_duplicate_references(refs, sim) == OuterLoop(SortedSet(refs), sim, EmptyDict)

\* ------------------------------------------------------------------
\* build_densification_map (src lines 198-226)

\* kept = sorted([n for n in range(1, max_ref + 1) if n not in duplicates])
KeptRefs(dups, mx) == Sorted(FilterNotIn(RangeList(1, mx), DOMAIN dups))

\* {old: new for new, old in enumerate(kept, 1)}
OldToNew(kept) ==
    [old \in Range(kept) |-> CHOOSE new \in DOMAIN kept : kept[new] = old]

\* Faulty variant: enumerate(kept) without the start of 1.
build_densification_map_from_zero(dups, mx) ==
    LET old_to_new == OldToNew(KeptRefs(dups, mx))
    IN [old \in 1..mx |-> IF old \in DOMAIN dups
                            THEN old_to_new[dups[old]] - 1
                            ELSE old_to_new[old] - 1]

\* Faulty variant: kept sorted in descending order.
build_densification_map_descending(dups, mx) ==
    LET old_to_new == OldToNew(SortedDesc(FilterNotIn(RangeList(1, mx), DOMAIN dups)))
    IN [old \in 1..mx |-> IF old \in DOMAIN dups
                            THEN old_to_new[dups[old]]
                            ELSE old_to_new[old]]

\* Faulty variant: a duplicate gets the old number of its original.
build_densification_map_old_original(dups, mx) ==
    LET old_to_new == OldToNew(KeptRefs(dups, mx))
    IN [old \in 1..mx |-> IF old \in DOMAIN dups
                            THEN dups[old]
                            ELSE old_to_new[old]]

build_densification_map(dups, mx) ==
    LET old_to_new == OldToNew(KeptRefs(dups, mx))
    IN [old \in 1..mx |-> IF old \in DOMAIN dups
                            THEN old_to_new[dups[old]]
                            ELSE old_to_new[old]]

\* ------------------------------------------------------------------
\* apply_citation_mappings (src lines 285-307)

\* [m.get(n, n) for n in list]
MapGet(m, s) == [i \in DOMAIN s |-> DictGet(m, s[i], s[i])]

\* Faulty variant: step 1 (replace duplicates with originals) left out.
apply_citation_mappings_no_replace(ns, dup_map, dmap) ==
    SortedSet(Range(MapGet(dmap, ns)))

\* Faulty variant: step 3 (deduplicate and sort) left out.
apply_citation_mappings_no_sort(ns, dup_map, dmap) ==
    MapGet(dmap, MapGet(dup_map, ns))

apply_citation_mappings(ns, dup_map, dmap) ==
    LET replaced  == MapGet(dup_map, ns)
        densified == MapGet(dmap, replaced)
    IN SortedSet(Range(densified))

\* The order the module docstring documents (CITATION TRANSFORMATION
\* PIPELINE, steps 3-5): replace duplicates, deduplicate and sort, densify.
DocstringPipeline(ns, dup_map, dmap) ==
    MapGet(dmap, SortedSet(Range(MapGet(dup_map, ns))))

\* ------------------------------------------------------------------
\* Strings: a Python str is a sequence of one-character strings.

DigitChars == <<"0", "1", "2", "3", "4", "5", "6", "7", "8", "9">>

\* c in '0'..'9' (the \d of the patterns)
IsDigit(c) == \E i \in DOMAIN DigitChars : DigitChars[i] = c

DigitValue(c) == (CHOOSE i \in DOMAIN DigitChars : DigitChars[i] = c) - 1

RECURSIVE Str(_)
\* str(n) for n >= 0
Str(n) ==
    IF n < 10 THEN <<DigitChars[n + 1]>>
    ELSE Str(n \div 10) \o <<DigitChars[(n % 10) + 1]>>

RECURSIVE ParseInt(_)
\* int(s) for a string of digits
ParseInt(s) ==
    IF s = <<>> THEN 0
    ELSE 10 * ParseInt(SubSeq(s, 1, Len(s) - 1)) + DigitValue(s[Len(s)])

IsSpace(c) == c = " "

RECURSIVE LStrip(_)
LStrip(s) == IF s # <<>> /\ IsSpace(Head(s)) THEN LStrip(Tail(s)) ELSE s

RECURSIVE RStrip(_)
RStrip(s) ==
    IF s # <<>> /\ IsSpace(s[Len(s)]) THEN RStrip(SubSeq(s, 1, Len(s) - 1)) ELSE s

\* s.strip()
Strip(s) == RStrip(LStrip(s))

\* s.startswith(prefix)
StartsWith(s, prefix) ==
    Len(s) >= Len(prefix) /\ SubSeq(s, 1, Len(prefix)) = prefix

\* s[n:]
Drop(s, n) == SubSeq(s, n + 1, Len(s))

RECURSIVE SplitOn(_, _, _)
\* s.split(c), cur being the part read so far
SplitOn(s, c, cur) ==
    IF s = <<>> THEN <<cur>>
    ELSE IF Head(s) = c THEN <<cur>> \o SplitOn(Tail(s), c, <<>>)
    ELSE SplitOn(Tail(s), c, Append(cur, Head(s)))

\* s.split(',')
SplitComma(s) == SplitOn(s, ",", <<>>)

RECURSIVE Join(_, _)
\* sep.join(parts)
Join(parts, sep) ==
    IF parts = <<>> THEN <<>>
    ELSE IF Len(parts) = 1 THEN parts[1]
    ELSE parts[1] \o sep \o Join(Tail(parts), sep)

CommaSpace == <<",", " ">>

CitationPrefix == <<"C", "i", "t", "a", "t", "i", "o", "n", " ">>

CitationsPrefix == <<"C", "i", "t", "a", "t", "i", "o", "n", "s", " ">>

TableWord == <<"T", "a", "b", "l", "e">>

\* CITATION_SINGLE = ^(\d+)$
MatchesSingle(s) == s # <<>> /\ \A i \in DOMAIN s : IsDigit(s[i])

\* CITATION_RANGE = ^(\d+)-(\d+)$
MatchesRange(s) ==
    \E k \in DOMAIN s :
        /\ s[k] = "-"
        /\ MatchesSingle(SubSeq(s, 1, k - 1))
        /\ MatchesSingle(SubSeq(s, k + 1, Len(s)))

\* group(1) and group(2) of a CITATION_RANGE match, as ints
RangeStart(s) == ParseInt(SubSeq(s, 1, (CHOOSE k \in DOMAIN s : s[k] = "-") - 1))

RangeEnd(s) == ParseInt(SubSeq(s, (CHOOSE k \in DOMAIN s : s[k] = "-") + 1, Len(s)))

\* ------------------------------------------------------------------
\* format_numbers_to_citation (src lines 229-282)

RECURSIVE GroupRuns(_, _, _)
\* for n in nums[1:]: extend the run (start, end) or close it
GroupRuns(rest, start, end) ==
    IF rest = <<>> THEN <<<<start, end>>>>
    ELSE IF Head(rest) = end + 1 THEN GroupRuns(Tail(rest), start, Head(rest))
    ELSE <<<<start, end>>>> \o GroupRuns(Tail(rest), Head(rest), Head(rest))

RECURSIVE FormatGroupsDashTwo(_)
\* Faulty variant: a run of two rendered with a dash.
FormatGroupsDashTwo(groups) ==
    IF groups = <<>> THEN <<>>
    ELSE LET start == Head(groups)[1]
             end   == Head(groups)[2]
         IN (IF start = end THEN <<Str(start)>>
             ELSE <<Str(start) \o <<"-">> \o Str(end)>>)
            \o FormatGroupsDashTwo(Tail(groups))

RECURSIVE FormatGroups(_)
\* for start, end in groups: parts.append(...)
FormatGroups(groups) ==
    IF groups = <<>> THEN <<>>
    ELSE LET start == Head(groups)[1]
             end   == Head(groups)[2]
         IN (IF start = end THEN <<Str(start)>>
             ELSE IF end = start + 1 THEN <<Str(start), Str(end)>>
             ELSE <<Str(start) \o <<"-">> \o Str(end)>>)
            \o FormatGroups(Tail(groups))

\* Faulty variant: a run of two rendered with a dash.
format_numbers_to_citation_dash_two(ns) ==
    IF ns = <<>> THEN <<>>
    ELSE LET sorted == SortedSet(Range(ns)) IN
         IF Len(sorted) = 1 THEN CitationPrefix \o Str(sorted[1])
         ELSE CitationsPrefix
              \o Join(FormatGroupsDashTwo(GroupRuns(Tail(sorted), sorted[1], sorted[1])),
                      CommaSpace)

format_numbers_to_citation(ns) ==
    IF ns = <<>> THEN <<>>
    ELSE LET sorted == SortedSet(Range(ns)) IN
         IF Len(sorted) = 1 THEN CitationPrefix \o Str(sorted[1])
         ELSE CitationsPrefix
              \o Join(FormatGroups(GroupRuns(Tail(sorted), sorted[1], sorted[1])),
                      CommaSpace)

\* ------------------------------------------------------------------
\* parse_citation (src lines 756-785)

RECURSIVE StripNonEmpty(_)
\* [p.strip() for p in parts if p.strip()]
StripNonEmpty(parts) ==
    IF parts = <<>> THEN <<>>
    ELSE (IF Strip(Head(parts)) # <<>> THEN <<Strip(Head(parts))>> ELSE <<>>)
         \o StripNonEmpty(Tail(parts))

RECURSIVE ValidParts(_)
\* [p for p in parts if CITATION_SINGLE.match(p) or CITATION_RANGE.match(p)]
ValidParts(parts) ==
    IF parts = <<>> THEN <<>>
    ELSE (IF MatchesSingle(Head(parts)) \/ MatchesRange(Head(parts))
          THEN <<Head(parts)>> ELSE <<>>)
         \o ValidParts(Tail(parts))

\* Faulty variant: plural decided by the number of parts alone.
parse_citation_plural_by_count(text) ==
    LET valid    == ValidParts(StripNonEmpty(SplitComma(Strip(text))))
        combined == Join(valid, CommaSpace)
    IN IF valid = <<>> THEN <<>>
       ELSE <<(IF Len(valid) > 1 THEN CitationsPrefix ELSE CitationPrefix) \o combined>>

\* Faulty variant: one invalid part rejects the whole text.
parse_citation_all_or_nothing(text) ==
    LET parts    == StripNonEmpty(SplitComma(Strip(text)))
        valid    == ValidParts(parts)
        combined == Join(valid, CommaSpace)
        plural   == Len(valid) > 1 \/ \E i \in DOMAIN combined : combined[i] = "-"
    IN IF valid = <<>> \/ Len(valid) < Len(parts) THEN <<>>
       ELSE <<(IF plural THEN CitationsPrefix ELSE CitationPrefix) \o combined>>

\* Returns the list of citation strings: empty, or one string.
parse_citation(text) ==
    LET valid    == ValidParts(StripNonEmpty(SplitComma(Strip(text))))
        combined == Join(valid, CommaSpace)
        plural   == Len(valid) > 1 \/ \E i \in DOMAIN combined : combined[i] = "-"
    IN IF valid = <<>> THEN <<>>
       ELSE <<(IF plural THEN CitationsPrefix ELSE CitationPrefix) \o combined>>

\* ------------------------------------------------------------------
\* extract_numbers_from_citation (src lines 577-615)

\* re.sub(r'^Citations?\s+', '', cite_str)
RemoveCitationPrefix(s) ==
    LET word == SubSeq(CitationPrefix, 1, 8)
        rest == Drop(s, 8)
    IN IF ~StartsWith(s, word) THEN s
       ELSE IF rest # <<>> /\ Head(rest) = "s"
               /\ Tail(rest) # <<>> /\ IsSpace(Head(Tail(rest)))
            THEN LStrip(Tail(rest))
       ELSE IF rest # <<>> /\ IsSpace(Head(rest)) THEN LStrip(rest)
       ELSE s

RECURSIVE ExpandPartsExclusive(_)
\* Faulty variant: a range expanded without its last number.
ExpandPartsExclusive(parts) ==
    IF parts = <<>> THEN <<>>
    ELSE LET part == Strip(Head(parts)) IN
         (IF MatchesRange(part) THEN RangeList(RangeStart(part), RangeEnd(part) - 1)
          ELSE IF MatchesSingle(part) THEN <<ParseInt(part)>>
          ELSE <<>>)
         \o ExpandPartsExclusive(Tail(parts))

\* Faulty variant: range(start, end) instead of range(start, end + 1).
extract_numbers_from_citation_exclusive(cite_str) ==
    IF StartsWith(cite_str, TableWord) THEN <<>>
    ELSE ExpandPartsExclusive(SplitComma(RemoveCitationPrefix(cite_str)))

RECURSIVE ExpandParts(_)
\* for part in parts: a range extends, a single number appends
ExpandParts(parts) ==
    IF parts = <<>> THEN <<>>
    ELSE LET part == Strip(Head(parts)) IN
         (IF MatchesRange(part) THEN RangeList(RangeStart(part), RangeEnd(part))
          ELSE IF MatchesSingle(part) THEN <<ParseInt(part)>>
          ELSE <<>>)
         \o ExpandParts(Tail(parts))

extract_numbers_from_citation(cite_str) ==
    IF StartsWith(cite_str, TableWord) THEN <<>>
    ELSE ExpandParts(SplitComma(RemoveCitationPrefix(cite_str)))

\* ------------------------------------------------------------------
\* build_canonical_order (src lines 618-658)

RomanChars == {"I", "V", "X", "L", "C", "D", "M", "i", "v", "x", "l", "c", "d", "m"}

\* c.upper() on the letters of a roman numeral
UpperChar(c) ==
    CASE c = "i" -> "I" [] c = "v" -> "V" [] c = "x" -> "X" [] c = "l" -> "L"
      [] c = "c" -> "C" [] c = "d" -> "D" [] c = "m" -> "M" [] OTHER -> c

\* s.upper()
Upper(s) == [i \in DOMAIN s |-> UpperChar(s[i])]

RECURSIVE TakeRoman(_)
\* the longest prefix matching [IVXLCDMivxlcdm]*
TakeRoman(s) ==
    IF s # <<>> /\ Head(s) \in RomanChars THEN <<Head(s)>> \o TakeRoman(Tail(s))
    ELSE <<>>

\* re.match(r'Table\s+([IVXLCDMivxlcdm]+)', cite).group(1); <<>> when no match
TableRomanMatch(cite) ==
    LET rest == Drop(cite, Len(TableWord)) IN
    IF StartsWith(cite, TableWord) /\ rest # <<>> /\ IsSpace(Head(rest))
    THEN TakeRoman(LStrip(rest))
    ELSE <<>>

RECURSIVE AppendUnseen(_, _)
\* for num in numbers: if num not in seen: seen.add(num); order.append(num)
AppendUnseen(acc, numbers) ==
    IF numbers = <<>> THEN acc
    ELSE IF Head(numbers) \in acc.seen THEN AppendUnseen(acc, Tail(numbers))
    ELSE AppendUnseen([seen  |-> acc.seen \cup {Head(numbers)},
                       order |-> Append(acc.order, Head(numbers))],
                      Tail(numbers))

RECURSIVE ExpandTable(_, _)
\* for table_cite in table_citations[roman]
ExpandTable(acc, table_cites) ==
    IF table_cites = <<>> THEN acc
    ELSE ExpandTable(AppendUnseen(acc, extract_numbers_from_citation(Head(table_cites))),
                     Tail(table_cites))

RECURSIVE WalkCitationsStopAtMissing(_, _, _)
\* Faulty variant: a Table reference without a table ends the walk of its
\* paragraph.
WalkCitationsStopAtMissing(acc, citations, tables) ==
    IF citations = <<>> THEN acc
    ELSE LET cite  == Head(citations)
             roman == Upper(TableRomanMatch(cite))
         IN IF StartsWith(cite, TableWord)
            THEN IF TableRomanMatch(cite) # <<>> /\ roman \in DOMAIN tables
                 THEN WalkCitationsStopAtMissing(ExpandTable(acc, tables[roman]),
                                                 Tail(citations), tables)
                 ELSE acc
            ELSE WalkCitationsStopAtMissing(
                   AppendUnseen(acc, extract_numbers_from_citation(cite)),
                   Tail(citations), tables)

RECURSIVE WalkCitations(_, _, _)
\* for cite in citations
WalkCitations(acc, citations, tables) ==
    IF citations = <<>> THEN acc
    ELSE LET cite  == Head(citations)
             roman == Upper(TableRomanMatch(cite))
             next  == IF StartsWith(cite, TableWord)
                      THEN IF TableRomanMatch(cite) # <<>> /\ roman \in DOMAIN tables
                           THEN ExpandTable(acc, tables[roman])
                           ELSE acc
                      ELSE AppendUnseen(acc, extract_numbers_from_citation(cite))
         IN WalkCitations(next, Tail(citations), tables)

RECURSIVE WalkParagraphs(_, _, _)
\* for first_three, full_text, citations in paragraph_results
WalkParagraphs(acc, paragraphs, tables) ==
    IF paragraphs = <<>> THEN acc
    ELSE WalkParagraphs(WalkCitations(acc, Head(paragraphs)[3], tables),
                        Tail(paragraphs), tables)

RECURSIVE TablesLast(_)
\* The citations of a paragraph with the Table references moved to the end.
TablesLast(citations) ==
    IF citations = <<>> THEN <<>>
    ELSE IF StartsWith(Head(citations), TableWord)
         THEN TablesLast(Tail(citations)) \o <<Head(citations)>>
         ELSE <<Head(citations)>> \o TablesLast(Tail(citations))

\* Faulty variant: tables expanded after the numeric citations of their paragraph.
build_canonical_order_tables_last(tables, paragraphs) ==
    WalkParagraphs([seen |-> {}, order |-> <<>>],
                   [i \in DOMAIN paragraphs |->
                       <<paragraphs[i][1], paragraphs[i][2], TablesLast(paragraphs[i][3])>>],
                   tables).order

build_canonical_order(tables, paragraphs) ==
    WalkParagraphs([seen |-> {}, order |-> <<>>], paragraphs, tables).order

\* ------------------------------------------------------------------
\* build_conversion_table (src lines 661-680)

RECURSIVE ConversionLoopFromZero(_, _, _)
\* Faulty variant: positions counted from 0.
ConversionLoopFromZero(order, new_num, conv) ==
    IF new_num > Len(order) THEN conv
    ELSE ConversionLoopFromZero(order, new_num + 1,
                                IF order[new_num] # new_num - 1
                                THEN DictSet(conv, order[new_num], new_num - 1)
                                ELSE conv)

\* Faulty variant: enumerate(canonical_order) without the start of 1.
build_conversion_table_from_zero(order) == ConversionLoopFromZero(order, 1, EmptyDict)

RECURSIVE ConversionLoop(_, _, _)
\* for new_num, old_num in enumerate(canonical_order, 1)
ConversionLoop(order, new_num, conv) ==
    IF new_num > Len(order) THEN conv
    ELSE ConversionLoop(order, new_num + 1,
                        IF order[new_num] # new_num
                        THEN DictSet(conv, order[new_num], new_num)
                        ELSE conv)

build_conversion_table(order) == ConversionLoop(order, 1, EmptyDict)

\* ------------------------------------------------------------------
\* generate_modification_plan (src lines 411-497) and
\* create_modified_document (src lines 1301-1410)

RECURSIVE RemoveAll(_, _)
\* s.replace(sub, '')
RemoveAll(s, sub) ==
    IF s = <<>> THEN <<>>
    ELSE IF StartsWith(s, sub) THEN RemoveAll(Drop(s, Len(sub)), sub)
    ELSE <<Head(s)>> \o RemoveAll(Tail(s), sub)

RECURSIVE DigitParts(_)
\* [int(n.strip()) for n in parts if n.strip().isdigit()]
DigitParts(parts) ==
    IF parts = <<>> THEN <<>>
    ELSE (IF MatchesSingle(Strip(Head(parts))) THEN <<ParseInt(Strip(Head(parts)))>>
          ELSE <<>>)
         \o DigitParts(Tail(parts))

\* Parse original to numbers (lines 437-445 and 1346-1354)
ParseOriginal(orig_text) ==
    IF \E i \in DOMAIN orig_text : orig_text[i] = "-"
    THEN IF MatchesRange(orig_text)
         THEN RangeList(RangeStart(orig_text), RangeEnd(orig_text))
         ELSE <<ParseInt(orig_text)>>
    ELSE DigitParts(SplitComma(orig_text))

\* format_numbers_to_citation(new_nums).replace('Citations ', '').replace('Citation ', '')
NumbersPart(new) ==
    RemoveAll(RemoveAll(format_numbers_to_citation(new), CitationsPrefix), CitationPrefix)

\* Faulty variant: the canonical-order conversion applied before the other two maps.
LocationNewNumsConverted(orig_text, dup_map, dmap) ==
    apply_citation_mappings(MapGet(conversion, ParseOriginal(orig_text)), dup_map, dmap)

\* new_nums = apply_citation_mappings(orig_nums, dup_map, dense_map)
LocationNewNums(orig_text, dup_map, dmap) ==
    apply_citation_mappings(ParseOriginal(orig_text), dup_map, dmap)

RemovedText == <<"(", "r", "e", "m", "o", "v", "e", "d", ")">>

\* One row of the plan: new text and change type of a location.
PlanEntry(orig_text, dup_map, dmap) ==
    LET orig_nums == ParseOriginal(orig_text)
        new       == LocationNewNums(orig_text, dup_map, dmap)
    IN IF Len(new) = 0 THEN [new_text |-> RemovedText, change_type |-> "removed"]
       ELSE IF Len(new) = 1
       THEN [new_text |-> Str(new[1]),
             change_type |-> IF Len(orig_nums) > 1 THEN "merged"
                             ELSE IF orig_nums[1] \in DOMAIN dup_map THEN "duplicate"
                             ELSE IF orig_nums[1] # new[1] THEN "renumbered"
                             ELSE "unchanged"]
       ELSE [new_text |-> NumbersPart(new),
             change_type |-> IF Range(orig_nums) # Range(new) THEN "renumbered"
                             ELSE "unchanged"]

generate_modification_plan(locs, dup_map, dmap) ==
    [i \in DOMAIN locs |-> PlanEntry(locs[i].original_text, dup_map, dmap)]

\* The new text create_modified_document computes for a location.
NewText(orig_text, dup_map, dmap) ==
    LET new == LocationNewNums(orig_text, dup_map, dmap)
    IN IF Len(new) = 0 THEN <<>>
       ELSE IF Len(new) = 1 THEN Str(new[1])
       ELSE NumbersPart(new)

\* The text the runs of each location hold afterwards: untouched when the
\* new text equals the original, else the new text in the first run and
\* the other runs emptied.
create_modified_document(locs, dup_map, dmap) ==
    [i \in DOMAIN locs |->
        IF NewText(locs[i].original_text, dup_map, dmap) = locs[i].original_text
        THEN locs[i].original_text
        ELSE NewText(locs[i].original_text, dup_map, dmap)]

\* ------------------------------------------------------------------
\* is_left_side_superscript (src lines 855-911) and
\* extract_citations_from_runs (src lines 788-852)

\* The letters of the texts at hand (str.isalpha on one character).
Letters ==
    {"A", "B", "C", "D", "E", "F", "G", "H", "I", "J", "K", "L", "M", "N", "O", "P", "Q",
     "R", "S", "T", "U", "V", "W", "X", "Y", "Z", "a", "b", "c", "d", "e", "f", "g", "h",
     "i", "j", "k", "l", "m", "n", "o", "p", "q", "r", "s", "t", "u", "v", "w", "x", "y",
     "z"}

\* c.isalpha()
IsAlpha(c) == c \in Letters

RECURSIVE FirstWord(_)
\* for c in next_text: if c.isalpha(): first_word += c else: break
FirstWord(s) ==
    IF s # <<>> /\ IsAlpha(Head(s)) THEN <<Head(s)>> \o FirstWord(Tail(s)) ELSE <<>>

\* Faulty variant: the author-name whitelist is not consulted.
is_left_side_superscript_no_whitelist(next_text, names) ==
    IF next_text = <<>> THEN FALSE
    ELSE IF ~IsAlpha(next_text[1]) THEN FALSE
    ELSE Len(FirstWord(next_text)) <= 2

\* names is the whitelist, {} when none is given.
is_left_side_superscript(next_text, names) ==
    IF next_text = <<>> THEN FALSE
    ELSE IF ~IsAlpha(next_text[1]) THEN FALSE
    ELSE IF names # {} /\ FirstWord(next_text) \in names THEN FALSE
    ELSE Len(FirstWord(next_text)) <= 2

RECURSIVE SupEnd(_, _)
\* while j < len(runs) and runs[j][1]: j += 1
\* (a token is <<text, is_sup>>; positions count from 1)
SupEnd(rs, j) == IF j <= Len(rs) /\ rs[j][2] THEN SupEnd(rs, j + 1) ELSE j

RECURSIVE CombinedSup(_, _, _)
\* combined_sup = text; combined_sup += runs[j][0] for the tokens i..j-1
CombinedSup(rs, i, j) ==
    IF i >= j THEN <<>> ELSE rs[i][1] \o CombinedSup(rs, i + 1, j)

RECURSIVE ScanRunsAnyText(_, _, _, _)
\* Faulty variant: any non-superscript token, blank or not, sets the flag.
ScanRunsAnyText(rs, i, seen, names) ==
    IF i > Len(rs) THEN <<>>
    ELSE IF ~rs[i][2] THEN ScanRunsAnyText(rs, i + 1, TRUE, names)
    ELSE LET j         == SupEnd(rs, i + 1)
             combined  == CombinedSup(rs, i, j)
             next_text == IF j <= Len(rs) THEN rs[j][1] ELSE <<>>
             left      == is_left_side_superscript(next_text, names)
         IN <<[first |-> i, last |-> j - 1, combined_sup |-> combined,
               left_side |-> left, has_seen_regular_text |-> seen,
               parsed |-> IF ~left /\ seen THEN parse_citation(combined) ELSE <<>>]>>
            \o ScanRunsAnyText(rs, j, seen, names)

RECURSIVE ScanRunsNoMerge(_, _, _, _)
\* Faulty variant: consecutive superscript tokens are not merged, every
\* superscript token is a group of its own.
ScanRunsNoMerge(rs, i, seen, names) ==
    IF i > Len(rs) THEN <<>>
    ELSE IF ~rs[i][2]
         THEN ScanRunsNoMerge(rs, i + 1, seen \/ Strip(rs[i][1]) # <<>>, names)
    ELSE LET j         == i + 1
             combined  == CombinedSup(rs, i, j)
             next_text == IF j <= Len(rs) THEN rs[j][1] ELSE <<>>
             left      == is_left_side_superscript(next_text, names)
         IN <<[first |-> i, last |-> j - 1, combined_sup |-> combined,
               left_side |-> left, has_seen_regular_text |-> seen,
               parsed |-> IF ~left /\ seen THEN parse_citation(combined) ELSE <<>>]>>
            \o ScanRunsNoMerge(rs, j, seen, names)

RECURSIVE ScanRunsStopAtMalformed(_, _, _, _)
\* Faulty variant: a group that is parsed to nothing ends the scan.
ScanRunsStopAtMalformed(rs, i, seen, names) ==
    IF i > Len(rs) THEN <<>>
    ELSE IF ~rs[i][2]
         THEN ScanRunsStopAtMalformed(rs, i + 1, seen \/ Strip(rs[i][1]) # <<>>, names)
    ELSE LET j         == SupEnd(rs, i + 1)
             combined  == CombinedSup(rs, i, j)
             next_text == IF j <= Len(rs) THEN rs[j][1] ELSE <<>>
             left      == is_left_side_superscript(next_text, names)
             parsed    == IF ~left /\ seen THEN parse_citation(combined) ELSE <<>>
         IN <<[first |-> i, last |-> j - 1, combined_sup |-> combined,
               left_side |-> left, has_seen_regular_text |-> seen,
               parsed |-> parsed]>>
            \o (IF ~left /\ seen /\ parsed = <<>> THEN <<>>
                ELSE ScanRunsStopAtMalformed(rs, j, seen, names))

RECURSIVE ScanRuns(_, _, _, _)
\* The while loop of extract_citations_from_runs from token i on, seen being
\* has_seen_regular_text: one record per merged superscript group, with what
\* the loop decided for it and the citations it extended the list by.
ScanRuns(rs, i, seen, names) ==
    IF i > Len(rs) THEN <<>>
    ELSE IF ~rs[i][2]
         THEN ScanRuns(rs, i + 1, seen \/ Strip(rs[i][1]) # <<>>, names)
    ELSE LET j         == SupEnd(rs, i + 1)
             combined  == CombinedSup(rs, i, j)
             next_text == IF j <= Len(rs) THEN rs[j][1] ELSE <<>>
             left      == is_left_side_superscript(next_text, names)
         IN <<[first |-> i, last |-> j - 1, combined_sup |-> combined,
               left_side |-> left, has_seen_regular_text |-> seen,
               parsed |-> IF ~left /\ seen THEN parse_citation(combined) ELSE <<>>]>>
            \o ScanRuns(rs, j, seen, names)

RECURSIVE ExtendAll(_)
\* citations.extend(parsed) for every group
ExtendAll(gs) == IF gs = <<>> THEN <<>> ELSE Head(gs).parsed \o ExtendAll(Tail(gs))

extract_citations_from_runs(rs, names) == ExtendAll(ScanRuns(rs, 1, FALSE, names))

\* ------------------------------------------------------------------
\* document.xml at the level of runs: xml_to_runs (src lines 932-974) and
\* extract_citation_locations (src lines 310-408).  A w:r run is
\* <<text, is_sup, has_t>>: the text of its w:t ('' when it has none or an
\* empty one), whether its vertAlign is superscript, whether it has a w:t.

Run(text, is_sup, has_t) == <<text, is_sup, has_t>>

RECURSIVE xml_to_runs(_)
\* for r in findall('.//w:r'): if t is not None and t.text: runs.append((t.text, is_sup))
xml_to_runs(par) ==
    IF par = <<>> THEN <<>>
    ELSE (IF Head(par)[1] # <<>> THEN <<<<Head(par)[1], Head(par)[2]>>>> ELSE <<>>)
         \o xml_to_runs(Tail(par))

\* ''.join(t.text for t in p.findall('.//w:t') if t.text)
FullText(par) == CombinedSup(par, 1, Len(par) + 1)

RECURSIVE LeadingDigits(_)
\* the length of the longest prefix of digits
LeadingDigits(s) ==
    IF s # <<>> /\ IsDigit(Head(s)) THEN 1 + LeadingDigits(Tail(s)) ELSE 0

\* REF_ENTRY_PATTERN.match(full_text), the pattern being ^\d+\.\s+
MatchesRefEntry(text) ==
    LET d == LeadingDigits(text) IN
    /\ d >= 1
    /\ Len(text) >= d + 2
    /\ text[d + 1] = "."
    /\ IsSpace(text[d + 2])

ContextLen == 30

\* s[-n:]
LastChars(s, n) == IF Len(s) <= n THEN s ELSE SubSeq(s, Len(s) - n + 1, Len(s))

\* One location; run indices count from 0 as in the code.
Location(p_idx, start_run_idx, j, combined_text, context) ==
    [paragraph_index |-> p_idx, run_index |-> start_run_idx, end_run_index |-> j - 1,
     original_text |-> combined_text, context |-> context]

RECURSIVE LocateRunsStepOne(_, _, _, _, _)
\* Faulty variant: after a group the walk resumes at the next run, not
\* past the group.
LocateRunsStepOne(rs, r_idx, seen, p_idx, names) ==
    IF r_idx >= Len(rs) THEN <<>>
    ELSE IF ~rs[r_idx + 1][2]
         THEN LocateRunsStepOne(rs, r_idx + 1, seen \/ Strip(rs[r_idx + 1][1]) # <<>>,
                                p_idx, names)
    ELSE LET j             == SupEnd(rs, r_idx + 2) - 1
             combined_text == Strip(CombinedSup(rs, r_idx + 1, j + 1))
             next_text     == IF j < Len(rs) THEN rs[j + 1][1] ELSE <<>>
             context       == Strip(LastChars(CombinedSup(rs, 1, r_idx + 1), ContextLen))
         IN (IF /\ ~is_left_side_superscript(next_text, names)
                /\ seen
                /\ (MatchesSingle(combined_text) \/ MatchesRange(combined_text))
             THEN <<Location(p_idx, r_idx, j, combined_text, context)>>
             ELSE <<>>)
            \o LocateRunsStepOne(rs, r_idx + 1, seen, p_idx, names)

RECURSIVE LocateRuns(_, _, _, _, _)
\* The while loop over the runs of one paragraph from r_idx on (r_idx and j
\* count from 0 as in the code, the run at index k being rs[k + 1]), seen
\* being has_seen_text.
LocateRuns(rs, r_idx, seen, p_idx, names) ==
    IF r_idx >= Len(rs) THEN <<>>
    ELSE IF ~rs[r_idx + 1][2]
         THEN LocateRuns(rs, r_idx + 1, seen \/ Strip(rs[r_idx + 1][1]) # <<>>,
                         p_idx, names)
    ELSE LET j             == SupEnd(rs, r_idx + 2) - 1
             combined_text == Strip(CombinedSup(rs, r_idx + 1, j + 1))
             next_text     == IF j < Len(rs) THEN rs[j + 1][1] ELSE <<>>
             context       == Strip(LastChars(CombinedSup(rs, 1, r_idx + 1), ContextLen))
         IN (IF /\ ~is_left_side_superscript(next_text, names)
                /\ seen
                /\ (MatchesSingle(combined_text) \/ MatchesRange(combined_text))
             THEN <<Location(p_idx, r_idx, j, combined_text, context)>>
             ELSE <<>>)
            \o LocateRuns(rs, j, seen, p_idx, names)

\* The locations of one paragraph: none for a reference entry.
ParagraphRunLocations(par, p_idx, names) ==
    IF MatchesRefEntry(FullText(par)) THEN <<>>
    ELSE LocateRuns(par, 0, FALSE, p_idx, names)

\* extract_citation_locations on the runs of document.xml (the xpath of a
\* location is a rendering of its paragraph_index and run_index).
locate_citations(doc, names) ==
    Flatten([p \in DOMAIN doc |-> ParagraphRunLocations(doc[p], p - 1, names)])

\* ------------------------------------------------------------------
\* create_modified_document on the runs of document.xml (src lines 1339-1390)

\* text_elem = r.find('.//w:t'); if text_elem is not None: text_elem.text = text
SetRunText(run, text) == IF run[3] THEN <<text, run[2], TRUE>> ELSE run

\* Find and modify the run(s) of one location (lines 1372-1390).
RewriteLocation(doc, loc, new_text) ==
    LET p       == loc.paragraph_index + 1
        r_start == loc.run_index
        r_end   == loc.end_run_index
    IN IF loc.paragraph_index >= Len(doc) THEN doc
       ELSE IF r_start >= Len(doc[p]) THEN doc
       ELSE [doc EXCEPT ![p] =
               [k \in DOMAIN doc[p] |->
                   IF k - 1 = r_start THEN SetRunText(doc[p][k], new_text)
                   ELSE IF k - 1 > r_start /\ k - 1 <= r_end
                        THEN SetRunText(doc[p][k], <<>>)
                   ELSE doc[p][k]]]

\* mod_count += 1 happens when the first run of the location has a w:t.
CountsAsModification(doc, loc) ==
    /\ loc.paragraph_index < Len(doc)
    /\ loc.run_index < Len(doc[loc.paragraph_index + 1])
    /\ doc[loc.paragraph_index + 1][loc.run_index + 1][3]

RECURSIVE WriteLocations(_, _, _, _)
\* for loc in locations, acc being the document tree and mod_count
WriteLocations(acc, locs, dup_map, dmap) ==
    IF locs = <<>> THEN acc
    ELSE LET loc      == Head(locs)
             new_text == NewText(loc.original_text, dup_map, dmap)
         IN WriteLocations(
              IF new_text = loc.original_text THEN acc
              ELSE [document  |-> RewriteLocation(acc.document, loc, new_text),
                    mod_count |-> acc.mod_count
                                    + (IF CountsAsModification(acc.document, loc)
                                       THEN 1 ELSE 0)],
              Tail(locs), dup_map, dmap)

\* The document.xml written back, and the mod_count returned.
write_modified_document(doc, locs, dup_map, dmap) ==
    WriteLocations([document |-> doc, mod_count |-> 0], locs, dup_map, dmap)

\* ------------------------------------------------------------------
\* Table labels and Table references in text

LowerLetters ==
    <<"a", "b", "c", "d", "e", "f", "g", "h", "i", "j", "k", "l", "m", "n", "o", "p", "q",
      "r", "s", "t", "u", "v", "w", "x", "y", "z">>

UpperLetters ==
    <<"A", "B", "C", "D", "E", "F", "G", "H", "I", "J", "K", "L", "M", "N", "O", "P", "Q",
      "R", "S", "T", "U", "V", "W", "X", "Y", "Z">>

\* text.upper()
UpperText(s) ==
    [i \in DOMAIN s |->
        IF \E k \in DOMAIN LowerLetters : LowerLetters[k] = s[i]
        THEN UpperLetters[CHOOSE k \in DOMAIN LowerLetters : LowerLetters[k] = s[i]]
        ELSE s[i]]

\* \w of the patterns
IsWordChar(c) == IsAlpha(c) \/ IsDigit(c) \/ c = "_"

\* \b right before position i of the text; i = Len(text) + 1 is its end.
WordBoundary(text, i) ==
    LET before == i > 1 /\ i - 1 <= Len(text) /\ IsWordChar(text[i - 1])
        after  == i >= 1 /\ i <= Len(text) /\ IsWordChar(text[i])
    IN before # after

RECURSIVE SpacesEnd(_, _)
\* \s+ from position k on: the position after the blanks
SpacesEnd(text, k) ==
    IF k <= Len(text) /\ IsSpace(text[k]) THEN SpacesEnd(text, k + 1) ELSE k

RECURSIVE RomanEnd(_, _)
\* [IVXLCDMivxlcdm]+ from position k on: the position after the letters
RomanEnd(text, k) ==
    IF k <= Len(text) /\ text[k] \in RomanChars THEN RomanEnd(text, k + 1) ELSE k

\* The match of \b<head>\s+([IVXLCDMivxlcdm]+)\b that starts at position i,
\* as a list of one match, or the empty list. The letters are taken
\* greedily, and no shorter run of them ends at a \b.
TableMatchAt(text, i, head) ==
    LET k  == i + Len(head)
        k2 == SpacesEnd(text, k)
        k3 == RomanEnd(text, k2)
    IN IF /\ k - 1 <= Len(text)
          /\ SubSeq(text, i, k - 1) = head
          /\ WordBoundary(text, i)
          /\ k2 > k
          /\ k3 > k2
          /\ WordBoundary(text, k3)
       THEN <<[start |-> i, roman |-> SubSeq(text, k2, k3 - 1), end |-> k3]>>
       ELSE <<>>

\* [Tt]ables? as the words it stands for, the optional s tried first.
ROMAN_PATTERN == <<<<"T", "a", "b", "l", "e", "s">>, <<"t", "a", "b", "l", "e", "s">>, <<"T", "a", "b", "l", "e">>, <<"t", "a", "b", "l", "e">>>>

\* TABLE of the label pattern, which is applied to upper-cased text.
TABLE_PATTERN == <<<<"T", "A", "B", "L", "E">>>>

RECURSIVE PatternMatchAt(_, _, _)
PatternMatchAt(pattern, text, i) ==
    IF pattern = <<>> THEN <<>>
    ELSE LET m == TableMatchAt(text, i, Head(pattern)) IN
         IF m # <<>> THEN m ELSE PatternMatchAt(Tail(pattern), text, i)

RECURSIVE Finditer(_, _, _)
\* pattern.finditer(text) from position i on: the leftmost match, then the
\* matches after its end; re.search gives the first of them.
Finditer(pattern, text, i) ==
    LET starts == {j \in i..Len(text) : PatternMatchAt(pattern, text, j) # <<>>} IN
    IF starts = {} THEN <<>>
    ELSE LET m == PatternMatchAt(pattern, text,
                                 CHOOSE j \in starts : \A k \in starts : j <= k)
         IN m \o Finditer(pattern, text, m[1].end)

is_roman_numeral(s) == s # <<>> /\ \A i \in DOMAIN s : s[i] \in RomanChars

\* ------------------------------------------------------------------
\* extract_paragraph_with_citations, process_paragraphs

RECURSIVE NonSuperscriptText(_)
\* ''.join(text for text, is_sup in runs if not is_sup)
NonSuperscriptText(rs) ==
    IF rs = <<>> THEN <<>>
    ELSE (IF Head(rs)[2] THEN <<>> ELSE Head(rs)[1]) \o NonSuperscriptText(Tail(rs))

RECURSIVE TableReferences(_)
\* for match in ROMAN_PATTERN.finditer(full_text): roman = match.group(1).upper();
\* if is_roman_numeral(roman): citations.append(f"Table {roman}")
TableReferences(matches) ==
    IF matches = <<>> THEN <<>>
    ELSE LET roman == Upper(Head(matches).roman) IN
         (IF is_roman_numeral(roman) THEN <<TableWord \o <<" ">> \o roman>> ELSE <<>>)
         \o TableReferences(Tail(matches))

\* Faulty variant: the Table references are put before the numeric citations.
extract_paragraph_with_citations_tables_first(par, names) ==
    LET rs        == xml_to_runs(par)
        full_text == NonSuperscriptText(rs)
        citations == extract_citations_from_runs(rs, names)
    IN <<full_text, TableReferences(Finditer(ROMAN_PATTERN, full_text, 1)) \o citations>>

\* Returns (full_text, citation_strings) of a paragraph given as its w:r runs.
extract_paragraph_with_citations(par, names) ==
    LET rs        == xml_to_runs(par)
        full_text == NonSuperscriptText(rs)
        citations == extract_citations_from_runs(rs, names)
    IN <<full_text, citations \o TableReferences(Finditer(ROMAN_PATTERN, full_text, 1))>>

\* re.match(r'^\d+\.\s', text.strip())
is_reference_entry(text) ==
    LET t == Strip(text)
        d == LeadingDigits(t)
    IN /\ d >= 1
       /\ Len(t) >= d + 2
       /\ t[d + 1] = "."
       /\ IsSpace(t[d + 2])

RECURSIVE WordEnd(_, _)
WordEnd(text, k) ==
    IF k <= Len(text) /\ ~IsSpace(text[k]) THEN WordEnd(text, k + 1) ELSE k

RECURSIVE Words(_)
\* text.split()
Words(text) ==
    LET t == LStrip(text) IN
    IF t = <<>> THEN <<>>
    ELSE <<SubSeq(t, 1, WordEnd(t, 1) - 1)>> \o Words(Drop(t, WordEnd(t, 1) - 1))

\* ' '.join(words[:3])
FirstThree(text) ==
    LET words == Words(text) IN
    Join(SubSeq(words, 1, IF Len(words) < 3 THEN Len(words) ELSE 3), <<" ">>)

MinParagraphLen == 30

\* A child of w:body: a paragraph with its w:r runs, or a table with its
\* rows, a row being its cells and a cell the runs of its one paragraph.
Paragraph(par) == [tag |-> "p", runs |-> par, rows |-> <<>>]

Table(rows) == [tag |-> "tbl", runs |-> <<>>, rows |-> rows]

RECURSIVE AllParagraphs(_)
\* root.findall('.//w:p'): the paragraphs of the body and of the table
\* cells, in document order
AllParagraphs(elems) ==
    IF elems = <<>> THEN <<>>
    ELSE (IF Head(elems).tag = "p" THEN <<Head(elems).runs>>
          ELSE Flatten(Head(elems).rows))
         \o AllParagraphs(Tail(elems))

RECURSIVE ParagraphLoop(_, _)
\* The loop of process_paragraphs over the paragraphs ps.
ParagraphLoop(ps, names) ==
    IF ps = <<>> THEN <<>>
    ELSE LET extracted == extract_paragraph_with_citations(Head(ps), names)
             text      == Strip(extracted[1])
             citations == extracted[2]
         IN (IF text = <<>> \/ Len(text) < MinParagraphLen THEN <<>>
             ELSE IF citations = <<>> THEN <<>>
             ELSE IF is_reference_entry(text) THEN <<>>
             ELSE <<<<FirstThree(text), text, citations>>>>)
            \o ParagraphLoop(Tail(ps), names)

process_paragraphs(elems, names) == ParagraphLoop(AllParagraphs(elems), names)

\* ------------------------------------------------------------------
\* extract_table_citations, process_tables

RECURSIVE CellLoop(_, _)
\* for cell in cells: citations.extend(extract_citations_from_runs(xml_to_runs(cell_xml)))
CellLoop(cells, names) ==
    IF cells = <<>> THEN <<>>
    ELSE extract_citations_from_runs(xml_to_runs(Head(cells)), names)
         \o CellLoop(Tail(cells), names)

RECURSIVE RowLoop(_, _)
\* for row in rows
RowLoop(rows, names) ==
    IF rows = <<>> THEN <<>> ELSE CellLoop(Head(rows), names) \o RowLoop(Tail(rows), names)

\* Faulty variant: the runs of all cells are classified as one scope.
extract_table_citations_shared_scope(tbl, names) ==
    extract_citations_from_runs(xml_to_runs(Flatten(Flatten(tbl))), names)

\* The table is given as its rows.
extract_table_citations(tbl, names) == RowLoop(tbl, names)

\* The label a body paragraph sets: the upper-cased roman numeral of the
\* first TABLE <roman> in its upper-cased text, <<>> when it sets none.
ParagraphLabel(par) ==
    LET text  == Strip(FullText(par))
        match == Finditer(TABLE_PATTERN, UpperText(text), 1)
    IN IF match # <<>> /\ is_roman_numeral(Upper(match[1].roman))
       THEN Upper(match[1].roman) ELSE <<>>

RECURSIVE WalkBodyResetOnLabel(_, _, _)
\* Faulty variant: every label paragraph starts its group afresh.
WalkBodyResetOnLabel(elems, table_groups, current_label) ==
    IF elems = <<>> THEN table_groups
    ELSE LET elem == Head(elems) IN
         IF elem.tag = "p"
         THEN LET roman == ParagraphLabel(elem.runs) IN
              IF roman # <<>>
              THEN WalkBodyResetOnLabel(Tail(elems), DictSet(table_groups, roman, <<>>), roman)
              ELSE WalkBodyResetOnLabel(Tail(elems), table_groups, current_label)
         ELSE IF elem.tag = "tbl" /\ current_label # <<>>
         THEN WalkBodyResetOnLabel(Tail(elems),
                       DictSet(table_groups, current_label,
                               Append(table_groups[current_label], elem.rows)),
                       current_label)
         ELSE WalkBodyResetOnLabel(Tail(elems), table_groups, current_label)

RECURSIVE WalkBody(_, _, _)
\* for elem in body, with table_groups and current_label as they stand;
\* current_label None is <<>>. Returns table_groups.
WalkBody(elems, table_groups, current_label) ==
    IF elems = <<>> THEN table_groups
    ELSE LET elem == Head(elems) IN
         IF elem.tag = "p"
         THEN LET roman == ParagraphLabel(elem.runs) IN
              IF roman # <<>>
              THEN WalkBody(Tail(elems),
                            IF roman \in DOMAIN table_groups THEN table_groups
                            ELSE DictSet(table_groups, roman, <<>>),
                            roman)
              ELSE WalkBody(Tail(elems), table_groups, current_label)
         ELSE IF elem.tag = "tbl" /\ current_label # <<>>
         THEN WalkBody(Tail(elems),
                       DictSet(table_groups, current_label,
                               Append(table_groups[current_label], elem.rows)),
                       current_label)
         ELSE WalkBody(Tail(elems), table_groups, current_label)

RECURSIVE GroupCitations(_, _)
\* for tbl_xml in table_xmls: all_citations.extend(extract_table_citations(tbl_xml))
GroupCitations(tables, names) ==
    IF tables = <<>> THEN <<>>
    ELSE extract_table_citations(Head(tables), names) \o GroupCitations(Tail(tables), names)

process_tables(elems, names) ==
    LET table_groups == WalkBody(elems, EmptyDict, <<>>) IN
    [roman \in DOMAIN table_groups |-> GroupCitations(table_groups[roman], names)]

\* ------------------------------------------------------------------
\* Inputs

\* Lists of length <= n over S.
SeqsUpTo(S, n) == UNION {[1..k -> S] : k \in 0..n}

\* Dicts with keys in K and values in V.
PartialMaps(K, V) == UNION {[D -> V] : D \in SUBSET K}

\* The pairs n1 < n2 of reference numbers the detector compares.
RefPairs(refs) == {p \in refs \X refs : p[1] < p[2]}

\* Duplicate Maps over the references 1..mx: every key is a reference number,
\* every original is a reference number that is not itself a duplicate.
DuplicateMaps(mx) ==
    {d \in PartialMaps(1..mx, 1..mx) : \A k \in DOMAIN d : d[k] \notin DOMAIN d}

\* No modification plan is part of the run.
NoPlan ==
    /\ locations = <<>>
    /\ plan = <<>>
    /\ written = <<>>

\* No document body is part of the run.
NoBody ==
    /\ body = <<>>
    /\ para_extracts = <<>>

\* No run-level document is part of the run.
NoRuns ==
    /\ sup_text = <<>>
    /\ runs = <<>>
    /\ author_names = {}
    /\ sup_groups = <<>>
    /\ cite_list = <<>>
    /\ document = <<>>
    /\ modified = <<>>

\* No document is part of the run.
NoDocument ==
    /\ NoRuns
    /\ doc_paragraphs = <<>>
    /\ doc_tables = EmptyDict
    /\ table_citations = EmptyDict
    /\ paragraph_results = <<>>
    /\ canonical_order = <<>>
    /\ conversion = EmptyDict
    /\ NoPlan

\* No bibliography is part of the run.
NoReferences ==
    /\ references = {}
    /\ similar = {}
    /\ duplicates = EmptyDict
    /\ max_ref = 0
    /\ dense_map = EmptyDict

\* ------------------------------------------------------------------
\* SpecDetect: detect_duplicate_references on every bibliography

InitDetect ==
    /\ NoBody
    /\ pc = "references"
    /\ references \in SUBSET (1..MaxRef)
    /\ similar \in SUBSET RefPairs(references)
    /\ duplicates = EmptyDict
    /\ max_ref = 0
    /\ dense_map = EmptyDict
    /\ nums = <<>>
    /\ new_nums = <<>>
    /\ citation = <<>>
    /\ NoDocument

DetectDuplicates ==
    /\ pc = "references"
    /\ duplicates' = detect_duplicate_references(references, similar)
    /\ pc' = "detected"
    /\ UNCHANGED <<xmlVars, runVars, references, similar, max_ref, dense_map, numVars, docVars>>

NextDetect == DetectDuplicates

SpecDetect == InitDetect /\ [][NextDetect]_vars

\* ------------------------------------------------------------------
\* SpecDensify: build_densification_map, then apply_citation_mappings

InitDensify ==
    /\ NoBody
    /\ pc = "duplicates"
    /\ references = {}
    /\ similar = {}
    /\ max_ref \in 0..MaxRef
    /\ duplicates \in DuplicateMaps(max_ref)
    /\ dense_map = EmptyDict
    /\ nums = <<>>
    /\ new_nums = <<>>
    /\ citation = <<>>
    /\ NoDocument

BuildDensificationMap ==
    /\ pc = "duplicates"
    /\ dense_map' = build_densification_map(duplicates, max_ref)
    /\ pc' = "densified"
    /\ UNCHANGED <<xmlVars, runVars, references, similar, duplicates, max_ref, numVars, docVars>>

ApplyToCitation ==
    /\ pc = "densified"
    /\ \E ns \in SeqsUpTo(1..max_ref, MaxLen) :
         /\ nums' = ns
         /\ new_nums' = apply_citation_mappings(ns, duplicates, dense_map)
    /\ pc' = "applied"
    /\ UNCHANGED <<xmlVars, runVars, dupVars, citation, docVars>>

NextDensify == BuildDensificationMap \/ ApplyToCitation

SpecDensify == InitDensify /\ [][NextDensify]_vars

\* ------------------------------------------------------------------
\* SpecApply: apply_citation_mappings on arbitrary maps

InitApply ==
    /\ NoBody
    /\ pc = "maps"
    /\ references = {}
    /\ similar = {}
    /\ max_ref = 0
    /\ duplicates \in PartialMaps(1..MaxKey, 1..MaxKey)
    /\ dense_map \in PartialMaps(1..MaxKey, 1..MaxKey)
    /\ nums = <<>>
    /\ new_nums = <<>>
    /\ citation = <<>>
    /\ NoDocument

ApplyCitationMappings ==
    /\ pc = "maps"
    /\ \E ns \in SeqsUpTo(1..(MaxKey + 1), MaxLen) :
         /\ nums' = ns
         /\ new_nums' = apply_citation_mappings(ns, duplicates, dense_map)
    /\ pc' = "applied"
    /\ UNCHANGED <<xmlVars, runVars, dupVars, citation, docVars>>

NextApply == ApplyCitationMappings

SpecApply == InitApply /\ [][NextApply]_vars

\* ------------------------------------------------------------------
\* Claims on build_densification_map (SpecDensify)

\* The values of a dict.
Values(d) == {d[k] : k \in DOMAIN d}

Densified == pc \in {"densified", "applied"}

\* C1: the map build_densification_map returns for a duplicate map over the
\* references 1..max_ref has exactly the keys 1..max_ref, and its set of
\* values is exactly 1..(max_ref - number of entries of duplicates).
C1_TotalAndDense ==
    Densified =>
        /\ DOMAIN dense_map = 1..max_ref
        /\ Values(dense_map) = 1..(max_ref - Cardinality(DOMAIN duplicates))

\* Two duplicates were removed below a kept number: gaps were filled.
C1_Witness ==
    /\ pc = "densified"
    /\ Cardinality(DOMAIN duplicates) >= 2
    /\ max_ref \notin DOMAIN duplicates
    /\ dense_map[max_ref] = max_ref - 2

\* C2: any two kept numbers a < b of 1..max_ref get new numbers in the same
\* strict order.
C2_OrderPreserving ==
    Densified =>
        \A a, b \in 1..max_ref :
            (a < b /\ a \notin DOMAIN duplicates /\ b \notin DOMAIN duplicates)
                => dense_map[a] < dense_map[b]

\* Two kept numbers with a duplicate between them: the upper one moved down.
C2_Witness ==
    /\ pc = "densified"
    /\ \E a, b \in 1..max_ref :
         /\ a < b
         /\ a \notin DOMAIN duplicates
         /\ b \notin DOMAIN duplicates
         /\ \E d \in DOMAIN duplicates : a < d /\ d < b
         /\ dense_map[b] = dense_map[a] + 1

RECURSIVE UltimateOriginal(_, _)
\* Follow the duplicate map from n until a number that is not a key.
UltimateOriginal(dups, n) ==
    IF n \in DOMAIN dups THEN UltimateOriginal(dups, dups[n]) ELSE n

\* C3: every duplicate d of 1..max_ref gets the new number of its ultimate
\* non-duplicate original.
C3_DuplicateFollowsOriginal ==
    Densified =>
        \A d \in (DOMAIN duplicates) \cap (1..max_ref) :
            dense_map[d] = dense_map[UltimateOriginal(duplicates, d)]

\* A duplicate whose original was itself renumbered.
C3_Witness ==
    /\ pc = "densified"
    /\ \E d \in DOMAIN duplicates :
         /\ dense_map[d] # duplicates[d]
         /\ dense_map[d] = dense_map[duplicates[d]]

\* ------------------------------------------------------------------
\* Claims on detect_duplicate_references (SpecDetect)

\* Similarity of two distinct references reaches the threshold.
SimilarRefs(a, b) == IF a < b THEN <<a, b>> \in similar ELSE <<b, a>> \in similar

SetMin(S) == CHOOSE x \in S : \A y \in S : x <= y

\* C4: the map detect_duplicate_references returns contains no chain: no
\* value of the map is a key of the map, and no key maps to itself.
C4_NoChains ==
    pc = "detected" =>
        \A d \in DOMAIN duplicates :
            /\ duplicates[d] \notin DOMAIN duplicates
            /\ duplicates[d] # d

\* A duplicate that is itself similar to a later reference that is not
\* similar to the duplicate's original: the input a chain could come from.
C4_Witness ==
    /\ pc = "detected"
    /\ \E d \in DOMAIN duplicates : \E n \in references :
         /\ d < n
         /\ <<d, n>> \in similar
         /\ <<duplicates[d], n>> \notin similar

\* C5: for every entry d -> o, o < d and o is the lowest-numbered reference
\* that is not a duplicate and whose similarity to d reaches the threshold;
\* three mutually similar references 1, 2, 3 give {2: 1, 3: 1}.
C5_LowestOriginal ==
    pc = "detected" =>
        /\ \A d \in DOMAIN duplicates :
             /\ duplicates[d] < d
             /\ duplicates[d] =
                  SetMin({n \in references \ {d} :
                            n \notin DOMAIN duplicates /\ SimilarRefs(n, d)})
        /\ (references = {1, 2, 3} /\ similar = RefPairs({1, 2, 3}))
              => duplicates = (2 :> 1 @@ 3 :> 1)

\* A duplicate with two kept references similar to it: the lower one won.
C5_Witness ==
    /\ pc = "detected"
    /\ \E d \in DOMAIN duplicates : \E n \in references :
         /\ duplicates[d] < n
         /\ n < d
         /\ n \notin DOMAIN duplicates
         /\ <<n, d>> \in similar

\* ------------------------------------------------------------------
\* Claims on apply_citation_mappings

StrictlyAscending(s) == \A i, j \in DOMAIN s : i < j => s[i] < s[j]

\* orig(n): duplicates[n] when n is a key, n otherwise.
OrigOf(n) == IF n \in DOMAIN duplicates THEN duplicates[n] ELSE n

\* densify(n): dense_map[n] when n is a key, n otherwise.
DensifyOf(n) == IF n \in DOMAIN dense_map THEN dense_map[n] ELSE n

\* C8 (SpecApply): apply_citation_mappings returns the strictly ascending
\* list whose elements are exactly the values densify(orig(n)), n in numbers.
C8_ApplyMappings ==
    pc = "applied" =>
        /\ StrictlyAscending(new_nums)
        /\ Range(new_nums) = {DensifyOf(OrigOf(n)) : n \in Range(nums)}

\* Two different input numbers collapse to one final number, one of them a
\* duplicate, and some number is absent from the densification map.
C8_Witness ==
    /\ pc = "applied"
    /\ \E i, j \in DOMAIN nums :
         /\ nums[i] # nums[j]
         /\ nums[i] \in DOMAIN duplicates
         /\ DensifyOf(OrigOf(nums[i])) = DensifyOf(OrigOf(nums[j]))
    /\ \E i \in DOMAIN nums : OrigOf(nums[i]) \notin DOMAIN dense_map
    /\ Len(new_nums) < Len(nums)

\* C9 (SpecDensify): the documented order (replace duplicates, deduplicate
\* and sort, densify) gives the list apply_citation_mappings returns.
C9_DocstringOrder ==
    pc = "applied" => new_nums = DocstringPipeline(nums, duplicates, dense_map)

\* A duplicate cited before its original and before a lower number, with a
\* renumbered result.
C9_Witness ==
    /\ pc = "applied"
    /\ Len(nums) = 3
    /\ nums[1] \in DOMAIN duplicates
    /\ nums[2] = duplicates[nums[1]]
    /\ nums[3] < nums[2]
    /\ dense_map[nums[2]] # nums[2]

\* ------------------------------------------------------------------
\* SpecFormat: format_numbers_to_citation on every list

FmtNums == 8..(7 + FmtSpan)

\* Every short list (any order, repeats), and every set of numbers listed
\* in descending order with its largest number repeated at the end.
FormatInputs ==
    SeqsUpTo(FmtNums, MaxFmtLen)
    \cup {SortedDesc(SetToSeq(S)) \o <<SortedDesc(SetToSeq(S))[1]>> :
            S \in (SUBSET FmtNums) \ {{}}}

InitFormat ==
    /\ NoBody
    /\ pc = "numbers"
    /\ nums = <<>>
    /\ new_nums = <<>>
    /\ citation = <<>>
    /\ NoReferences
    /\ NoDocument

FormatNumbers ==
    /\ pc = "numbers"
    /\ \E ns \in FormatInputs :
         /\ nums' = ns
         /\ citation' = format_numbers_to_citation(ns)
    /\ pc' = "formatted"
    /\ UNCHANGED <<xmlVars, runVars, dupVars, new_nums, docVars>>

NextFormat == FormatNumbers

SpecFormat == InitFormat /\ [][NextFormat]_vars

\* The first numbers of the maximal runs of consecutive integers of S.
RunStarts(S) == {n \in S : n - 1 \notin S}

\* The last number of the maximal run of S that starts at a.
RunEndOf(S, a) == SetMin({m \in S : m >= a /\ m + 1 \notin S})

\* A run rendered: bare number, two numbers with a comma, or start-end.
RenderRun(S, a) ==
    LET b == RunEndOf(S, a) IN
    IF b = a THEN Str(a)
    ELSE IF b = a + 1 THEN Str(a) \o CommaSpace \o Str(b)
    ELSE Str(a) \o <<"-">> \o Str(b)

\* The runs of S rendered and joined with ', ' in ascending order.
RenderRuns(S) ==
    LET starts == SortedSet(RunStarts(S))
    IN Join([i \in DOMAIN starts |-> RenderRun(S, starts[i])], CommaSpace)

\* C10: format_numbers_to_citation renders the maximal runs of consecutive
\* integers of the set of its input, in ascending order joined with ', ': a
\* run of 1 as the number, a run of 2 as two numbers with a comma, a longer
\* run as start-end; the empty list gives the empty string.
C10_FormatRuns ==
    pc = "formatted" =>
        IF nums = <<>> THEN citation = <<>>
        ELSE \/ citation = CitationPrefix \o RenderRuns(Range(nums))
             \/ citation = CitationsPrefix \o RenderRuns(Range(nums))

\* An unsorted list with a repeat that holds a run of three or more, a run
\* of exactly two and a run of one.
C10_Witness ==
    /\ pc = "formatted"
    /\ Len(nums) > Cardinality(Range(nums))
    /\ nums[1] > nums[2]
    /\ \E a, b, c \in RunStarts(Range(nums)) :
         /\ RunEndOf(Range(nums), a) = a
         /\ RunEndOf(Range(nums), b) = b + 1
         /\ RunEndOf(Range(nums), c) >= c + 2

\* ------------------------------------------------------------------
\* SpecOrder: build_canonical_order, then build_conversion_table

\* A citation marker: the superscript text and the numbers it denotes.
Marker(raw, numbers) ==
    [kind |-> "citation", raw |-> raw, numbers |-> numbers, roman |-> <<>>]

\* A reference to a table in paragraph text.
TableRef(roman) ==
    [kind |-> "table", raw |-> <<>>, numbers |-> <<>>, roman |-> roman]

Markers ==
    { Marker(<<"1", "0">>, <<10>>),
      Marker(<<"3", ",", "1">>, <<3, 1>>),
      Marker(<<"2", "-", "4">>, <<2, 3, 4>>) }

TableRefs == { TableRef(<<"I">>), TableRef(<<"I", "I">>) }

\* The ways to cut a list into consecutive non-empty paragraphs.
RECURSIVE Paragraphings(_)
Paragraphings(items) ==
    IF items = <<>> THEN {<<>>}
    ELSE UNION {{<<SubSeq(items, 1, k)>> \o rest :
                    rest \in Paragraphings(SubSeq(items, k + 1, Len(items)))} :
                k \in 1..Len(items)}

DocParagraphs ==
    UNION {Paragraphings(items) : items \in SeqsUpTo(Markers \cup TableRefs, MaxDocCites)}

\* Table I with any markers or absent, Table II with one marker or absent.
DocTables ==
    {EmptyDict}
    \cup {(<<"I">> :> t) : t \in SeqsUpTo(Markers, MaxTableCites)}
    \cup {(<<"I", "I">> :> <<Marker(<<"3", ",", "1">>, <<3, 1>>)>>)}
    \cup {(<<"I">> :> t) @@ (<<"I", "I">> :> <<Marker(<<"3", ",", "1">>, <<3, 1>>)>>) :
            t \in SeqsUpTo(Markers, MaxTableCites)}

\* The citation string the extraction produces for an item (src lines 847
\* and 1054): parse_citation of a marker, f"Table {roman}" of a table reference.
CitationStrings(item) ==
    IF item.kind = "table" THEN <<TableWord \o <<" ">> \o item.roman>>
    ELSE parse_citation(item.raw)

CitationList(items) == Flatten([i \in DOMAIN items |-> CitationStrings(items[i])])

InitOrder ==
    /\ NoBody
    /\ pc = "extracted"
    /\ doc_paragraphs \in DocParagraphs
    /\ doc_tables \in DocTables
    /\ table_citations = [r \in DOMAIN doc_tables |-> CitationList(doc_tables[r])]
    /\ paragraph_results =
         [i \in DOMAIN doc_paragraphs |-> <<<<>>, <<>>, CitationList(doc_paragraphs[i])>>]
    /\ canonical_order = <<>>
    /\ conversion = EmptyDict
    /\ NoPlan
    /\ NoRuns
    /\ nums = <<>>
    /\ new_nums = <<>>
    /\ citation = <<>>
    /\ NoReferences

BuildCanonicalOrder ==
    /\ pc = "extracted"
    /\ canonical_order' = build_canonical_order(table_citations, paragraph_results)
    /\ pc' = "ordered"
    /\ UNCHANGED <<xmlVars, runVars, dupVars, numVars, doc_paragraphs, doc_tables, table_citations,
                   paragraph_results, conversion, planVars>>

BuildConversionTable ==
    /\ pc = "ordered"
    /\ conversion' = build_conversion_table(canonical_order)
    /\ pc' = "converted"
    /\ UNCHANGED <<xmlVars, runVars, dupVars, numVars, doc_paragraphs, doc_tables, table_citations,
                   paragraph_results, canonical_order, planVars>>

NextOrder == BuildCanonicalOrder \/ BuildConversionTable

SpecOrder == InitOrder /\ [][NextOrder]_vars

\* The numbers an item contributes when read: a marker its numbers, a table
\* reference the numbers of the markers of that table, row-first.
ReadItem(item) ==
    IF item.kind = "table"
    THEN IF item.roman \in DOMAIN doc_tables
         THEN Flatten([i \in DOMAIN doc_tables[item.roman] |->
                          doc_tables[item.roman][i].numbers])
         ELSE <<>>
    ELSE item.numbers

\* The numbers of the document in reading order, tables inlined.
Reading ==
    LET items == Flatten(doc_paragraphs)
    IN Flatten([i \in DOMAIN items |-> ReadItem(items[i])])

FirstIndex(s, x) == SetMin({i \in DOMAIN s : s[i] = x})

\* C6: build_canonical_order returns, without repeats, exactly the numbers
\* read in the paragraphs with every Table reference replaced at its position
\* by that table's citations, ordered by first encounter.
C6_CanonicalOrder ==
    pc \in {"ordered", "converted"} =>
        /\ \A i, j \in DOMAIN canonical_order :
              i # j => canonical_order[i] # canonical_order[j]
        /\ Range(canonical_order) = Range(Reading)
        /\ \A i, j \in DOMAIN canonical_order :
              i < j => FirstIndex(Reading, canonical_order[i])
                          < FirstIndex(Reading, canonical_order[j])

\* A marker, then a reference to a table holding new numbers, then a marker
\* with a number first met in the table or before.
C6_Witness ==
    /\ pc = "ordered"
    /\ \E p \in DOMAIN doc_paragraphs :
         /\ Len(doc_paragraphs[p]) = 3
         /\ doc_paragraphs[p][1].kind = "citation"
         /\ doc_paragraphs[p][2].kind = "table"
         /\ doc_paragraphs[p][3].kind = "citation"
         /\ doc_paragraphs[p][2].roman \in DOMAIN doc_tables
         /\ Range(ReadItem(doc_paragraphs[p][2]))
              \ Range(doc_paragraphs[p][1].numbers) # {}
         /\ Range(doc_paragraphs[p][3].numbers)
              \cap Range(ReadItem(doc_paragraphs[p][2])) # {}
         /\ Range(doc_paragraphs[p][3].numbers)
              \ (Range(ReadItem(doc_paragraphs[p][2]))
                   \cup Range(doc_paragraphs[p][1].numbers)) # {}

\* ------------------------------------------------------------------
\* SpecMain: one run of main() on a document with a bibliography

MainMarkers ==
    { Marker(<<"1">>, <<1>>),
      Marker(<<"2">>, <<2>>),
      Marker(<<"3">>, <<3>>),
      Marker(<<"2", "-", "3">>, <<2, 3>>) }

MainParagraphs ==
    UNION {Paragraphings(items) : items \in SeqsUpTo(MainMarkers, MaxMainCites)}

\* The superscript groups extract_citation_locations records (src lines
\* 386-404): those whose stripped text is a single number or a range.
IsLocated(item) ==
    item.kind = "citation"
    /\ (MatchesSingle(Strip(item.raw)) \/ MatchesRange(Strip(item.raw)))

RECURSIVE ParagraphLocations(_, _)
ParagraphLocations(items, p_idx) ==
    IF items = <<>> THEN <<>>
    ELSE (IF IsLocated(Head(items))
          THEN <<[paragraph_index |-> p_idx, original_text |-> Strip(Head(items).raw)]>>
          ELSE <<>>)
         \o ParagraphLocations(Tail(items), p_idx)

extract_citation_locations(paragraphs) ==
    Flatten([p \in DOMAIN paragraphs |-> ParagraphLocations(paragraphs[p], p - 1)])

\* max(references.keys())
MaxOf(S) == CHOOSE x \in S : \A y \in S : y <= x

InitMain ==
    /\ NoBody
    /\ pc = "loaded"
    /\ references \in (SUBSET (1..MaxMainRef)) \ {{}}
    /\ similar \in SUBSET RefPairs(references)
    /\ duplicates = EmptyDict
    /\ max_ref = 0
    /\ dense_map = EmptyDict
    /\ doc_paragraphs \in MainParagraphs
    /\ doc_tables = EmptyDict
    /\ table_citations = EmptyDict
    /\ paragraph_results = <<>>
    /\ canonical_order = <<>>
    /\ conversion = EmptyDict
    /\ NoPlan
    /\ NoRuns
    /\ nums = <<>>
    /\ new_nums = <<>>
    /\ citation = <<>>

\* table_citations = process_tables(...); paragraph_results = process_paragraphs(...)
MainExtract ==
    /\ pc = "loaded"
    /\ table_citations' = [r \in DOMAIN doc_tables |-> CitationList(doc_tables[r])]
    /\ paragraph_results' =
         [i \in DOMAIN doc_paragraphs |-> <<<<>>, <<>>, CitationList(doc_paragraphs[i])>>]
    /\ pc' = "extracted"
    /\ UNCHANGED <<xmlVars, runVars, dupVars, numVars, doc_paragraphs, doc_tables, canonical_order,
                   conversion, planVars>>

\* duplicates = detect_duplicate_references(references)
MainDetect ==
    /\ pc = "extracted"
    /\ duplicates' = detect_duplicate_references(references, similar)
    /\ pc' = "detected"
    /\ UNCHANGED <<xmlVars, runVars, references, similar, max_ref, dense_map, numVars, docVars>>

\* generate_markdown: sections 3 and 6
MainGenerateMarkdown ==
    /\ pc = "detected"
    /\ canonical_order' = build_canonical_order(table_citations, paragraph_results)
    /\ conversion' = build_conversion_table(canonical_order')
    /\ max_ref' = MaxOf(references)
    /\ dense_map' = build_densification_map(duplicates, max_ref')
    /\ locations' = extract_citation_locations(doc_paragraphs)
    /\ plan' = generate_modification_plan(locations', duplicates, dense_map')
    /\ pc' = "reported"
    /\ UNCHANGED <<xmlVars, runVars, references, similar, duplicates, numVars, doc_paragraphs, doc_tables,
                   table_citations, paragraph_results, written>>

\* main: dense_map, locations, create_modified_document
MainCreateModifiedDocument ==
    /\ pc = "reported"
    /\ max_ref' = MaxOf(references)
    /\ dense_map' = build_densification_map(duplicates, max_ref')
    /\ locations' = extract_citation_locations(doc_paragraphs)
    /\ written' = create_modified_document(locations', duplicates, dense_map')
    /\ pc' = "modified"
    /\ UNCHANGED <<xmlVars, runVars, references, similar, duplicates, numVars, doc_paragraphs, doc_tables,
                   table_citations, paragraph_results, canonical_order, conversion, plan>>

NextMain ==
    MainExtract \/ MainDetect \/ MainGenerateMarkdown \/ MainCreateModifiedDocument

SpecMain == InitMain /\ [][NextMain]_vars

\* The markers of the document that are locations, in document order.
LocatedMarkers == SelectSeq(Flatten(doc_paragraphs), IsLocated)

\* The number of kept references among 1..n.
KeptRank(n) == Cardinality({k \in 1..n : k \notin DOMAIN duplicates})

\* The new number of n under duplicate collapsing and gap filling alone.
CollapsedNumber(n) ==
    IF n \in 1..max_ref THEN KeptRank(UltimateOriginal(duplicates, n)) ELSE n

\* C7 as claimed: the number written for a citation reflects the
\* canonical-order conversion too; with no duplicate in the bibliography the
\* one old->new mapping is the conversion table itself, so a marker of the
\* single number n with an entry n -> p is rewritten to p.
C7_ConversionApplied ==
    pc = "modified" =>
        \A l \in DOMAIN locations :
            (/\ duplicates = EmptyDict
             /\ Len(LocatedMarkers[l].numbers) = 1
             /\ LocatedMarkers[l].numbers[1] \in DOMAIN conversion)
                => written[l] = Str(conversion[LocatedMarkers[l].numbers[1]])

\* C7 amended: the replacement numbers come from duplicate collapsing and
\* gap filling alone: the text written for a location denotes exactly the
\* numbers KeptRank(original of n), n a number of the marker, whatever the
\* canonical-order conversion table holds; the plan lists the same text.
C7_ReplacementFromDuplicatesOnly ==
    pc = "modified" =>
        \A l \in DOMAIN locations :
            LET expected ==
                  RenderRuns({CollapsedNumber(n) : n \in Range(LocatedMarkers[l].numbers)})
            IN /\ written[l] = expected
               /\ plan[l].new_text = expected

\* A document out of canonical order with a cited duplicate: the number
\* written is neither the old number nor the conversion table's.
C7_Witness ==
    /\ pc = "modified"
    /\ \E l \in DOMAIN locations :
         LET n == LocatedMarkers[l].numbers[1] IN
         /\ Len(LocatedMarkers[l].numbers) = 1
         /\ n \in DOMAIN conversion
         /\ n \in DOMAIN duplicates
         /\ written[l] # Str(conversion[n])
         /\ written[l] # Str(n)

\* ------------------------------------------------------------------
\* SpecCitationString: the two producers of numeric citation strings,
\* parse_citation on every superscript text and format_numbers_to_citation
\* on every list

\* The characters of a superscript text: digits, the separators, a blank
\* and a letter.
ParseChars == {"1", "2", ",", "-", " ", "a"}

ParseInputs == SeqsUpTo(ParseChars, MaxParseLen)

InitCitationString ==
    /\ NoBody
    /\ pc \in {"superscript", "numbers"}
    /\ sup_text \in (IF pc = "superscript" THEN ParseInputs ELSE {<<>>})
    /\ runs = <<>>
    /\ author_names = {}
    /\ sup_groups = <<>>
    /\ cite_list = <<>>
    /\ document = <<>>
    /\ modified = <<>>
    /\ doc_paragraphs = <<>>
    /\ doc_tables = EmptyDict
    /\ table_citations = EmptyDict
    /\ paragraph_results = <<>>
    /\ canonical_order = <<>>
    /\ conversion = EmptyDict
    /\ NoPlan
    /\ nums = <<>>
    /\ new_nums = <<>>
    /\ citation = <<>>
    /\ NoReferences

\* parsed = parse_citation(combined_sup)
ParseCitation ==
    /\ pc = "superscript"
    /\ cite_list' = parse_citation(sup_text)
    /\ pc' = "parsed"
    /\ UNCHANGED <<xmlVars, dupVars, numVars, docVars, sup_text, runs, author_names, sup_groups,
                   document, modified>>

NextCitationString == ParseCitation \/ FormatNumbers

SpecCitationString == InitCitationString /\ [][NextCitationString]_vars

\* The number part of a citation string and its prefix.
IsSingular(c) == StartsWith(c, CitationPrefix)

IsPlural(c) == StartsWith(c, CitationsPrefix)

NumberPart(c) == IF IsPlural(c) THEN Drop(c, Len(CitationsPrefix)) ELSE Drop(c, Len(CitationPrefix))

\* The citation string denotes a single number.
DenotesOneNumber(c) == Cardinality(Range(extract_numbers_from_citation(c))) = 1

\* C11 as claimed: a numeric citation string from either producer is
\* singular iff it denotes a single number, and plural otherwise.
C11_SingularIffOneNumber ==
    /\ pc = "parsed" =>
          \A i \in DOMAIN cite_list :
              /\ IsSingular(cite_list[i]) <=> DenotesOneNumber(cite_list[i])
              /\ IsPlural(cite_list[i]) <=> ~DenotesOneNumber(cite_list[i])
    /\ (pc = "formatted" /\ nums # <<>>) =>
          /\ IsSingular(citation) <=> DenotesOneNumber(citation)
          /\ IsPlural(citation) <=> ~DenotesOneNumber(citation)

\* C11 amended: a numeric citation string is singular iff its number part
\* is one bare number (one part, no dash) and plural otherwise; for
\* format_numbers_to_citation that is iff the list holds one distinct number,
\* while parse_citation keeps the plural for a one-part range even when it
\* denotes a single number.
C11_SingularIffBareNumber ==
    /\ pc = "parsed" =>
          \A i \in DOMAIN cite_list :
              /\ IsSingular(cite_list[i]) \/ IsPlural(cite_list[i])
              /\ IsSingular(cite_list[i]) <=> MatchesSingle(NumberPart(cite_list[i]))
    /\ (pc = "formatted" /\ nums # <<>>) =>
          /\ IsSingular(citation) \/ IsPlural(citation)
          /\ IsSingular(citation) <=> MatchesSingle(NumberPart(citation))
          /\ IsSingular(citation) <=> Cardinality(Range(nums)) = 1

\* A superscript range that denotes one number, parsed to a plural string.
C11_Witness ==
    /\ pc = "parsed"
    /\ cite_list # <<>>
    /\ IsPlural(cite_list[1])
    /\ MatchesRange(NumberPart(cite_list[1]))
    /\ DenotesOneNumber(cite_list[1])

\* The comma-separated parts of a text, each stripped.
PartsOf(text) ==
    LET cuts == <<0>> \o SortedSet({i \in DOMAIN text : text[i] = ","}) \o <<Len(text) + 1>>
    IN [k \in 1..(Len(cuts) - 1) |-> Strip(SubSeq(text, cuts[k] + 1, cuts[k + 1] - 1))]

IsNumberOrRange(p) == MatchesSingle(p) \/ MatchesRange(p)

\* The parts that survive, in their order.
KeptParts(text) == SelectSeq(PartsOf(text), IsNumberOrRange)

\* C13: parse_citation keeps, in order, exactly the comma-separated parts
\* that are a number or an N-M range, joins them with ', ' and returns one
\* string, 'Citation ' iff one part survived and it is not a range, else
\* 'Citations '; with no surviving part it returns the empty list.
C13_ParseCitation ==
    pc = "parsed" =>
        LET kept == KeptParts(sup_text) IN
        IF kept = <<>> THEN cite_list = <<>>
        ELSE cite_list =
               <<(IF Len(kept) = 1 /\ ~MatchesRange(kept[1])
                  THEN CitationPrefix ELSE CitationsPrefix)
                 \o Join(kept, CommaSpace)>>

\* A text of three parts whose middle part is dropped.
C13_Witness ==
    /\ pc = "parsed"
    /\ Len(PartsOf(sup_text)) = 3
    /\ ~IsNumberOrRange(PartsOf(sup_text)[2])
    /\ PartsOf(sup_text)[2] # <<>>
    /\ Len(KeptParts(sup_text)) = 2
    /\ Len(cite_list) = 1

\* C12: on a non-empty list of positive integers, expanding the formatted
\* string gives the ascending list of the distinct numbers of the list, and
\* formatting that list gives the same string again.
C12_RoundTrip ==
    (pc = "formatted" /\ nums # <<>>) =>
        /\ extract_numbers_from_citation(citation) = SortedSet(Range(nums))
        /\ format_numbers_to_citation(extract_numbers_from_citation(citation)) = citation

\* An unsorted list with a repeat whose string holds a dashed range.
C12_Witness ==
    /\ pc = "formatted"
    /\ Len(nums) > Cardinality(Range(nums))
    /\ nums # SortedSet(Range(nums))
    /\ \E i \in DOMAIN citation : citation[i] = "-"
    /\ \E i \in DOMAIN citation : citation[i] = ","

\* ------------------------------------------------------------------
\* SpecClassify: extract_citations_from_runs on the tokens of one scope

Token(text, is_sup) == <<text, is_sup>>

\* Non-superscript texts: a long word, a blank, a short word before a blank,
\* a short word at the end of the token, punctuation.
RegularTexts ==
    { <<"A", "b", "c">>, <<" ">>, <<"X", "e", " ">>, <<"L", "i">>, <<",", " ", "x">> }

\* Superscript texts.
SupTexts == { <<"1">>, <<",">>, <<"x">> }

Tokens ==
    {Token(t, FALSE) : t \in RegularTexts} \cup {Token(t, TRUE) : t \in SupTexts}

AuthorSets == { {}, {<<"L", "i">>}, {<<"L", "i">>, <<"X", "e">>} }

InitClassify ==
    /\ NoBody
    /\ pc = "tokens"
    /\ runs \in SeqsUpTo(Tokens, MaxRuns)
    /\ author_names \in AuthorSets
    /\ sup_text = <<>>
    /\ sup_groups = <<>>
    /\ cite_list = <<>>
    /\ document = <<>>
    /\ modified = <<>>
    /\ doc_paragraphs = <<>>
    /\ doc_tables = EmptyDict
    /\ table_citations = EmptyDict
    /\ paragraph_results = <<>>
    /\ canonical_order = <<>>
    /\ conversion = EmptyDict
    /\ NoPlan
    /\ nums = <<>>
    /\ new_nums = <<>>
    /\ citation = <<>>
    /\ NoReferences

\* citations = extract_citations_from_runs(runs, author_names)
ExtractCitationsFromRuns ==
    /\ pc = "tokens"
    /\ sup_groups' = ScanRuns(runs, 1, FALSE, author_names)
    /\ cite_list' = extract_citations_from_runs(runs, author_names)
    /\ pc' = "classified"
    /\ UNCHANGED <<xmlVars, dupVars, numVars, docVars, sup_text, runs, author_names,
                   document, modified>>

NextClassify == ExtractCitationsFromRuns

SpecClassify == InitClassify /\ [][NextClassify]_vars

\* The positions where a maximal run of superscript tokens starts, and where
\* the run that starts at i ends.
GroupStarts == {i \in DOMAIN runs : runs[i][2] /\ (i = 1 \/ ~runs[i - 1][2])}

GroupEnd(i) ==
    SetMin({j \in i..Len(runs) : j = Len(runs) \/ ~runs[j + 1][2]})

\* The text of the token right after position j; empty at the end of the scope.
TextAfter(j) == IF j < Len(runs) THEN runs[j + 1][1] ELSE <<>>

\* The text starts with a run of exactly k letters.
LeadingLetters(text, k) ==
    /\ k <= Len(text)
    /\ \A m \in 1..k : IsAlpha(text[m])
    /\ (k = Len(text) \/ ~IsAlpha(text[k + 1]))

\* The text starts with a word of one or two letters that is not whitelisted.
ShortUnlistedWord(text) ==
    \E k \in 1..2 : LeadingLetters(text, k) /\ SubSeq(text, 1, k) \notin author_names

\* The groups met are the maximal superscript runs, in order, each merged.
GroupsAreMaximalRuns ==
    /\ {sup_groups[g].first : g \in DOMAIN sup_groups} = GroupStarts
    /\ \A g \in DOMAIN sup_groups :
          /\ sup_groups[g].last = GroupEnd(sup_groups[g].first)
          /\ g > 1 => sup_groups[g - 1].last < sup_groups[g].first

\* C14: a merged superscript group is discarded as left-side notation
\* exactly when the token right after it is non-empty, starts with a letter,
\* and its leading run of letters has at most 2 letters and is not in the
\* whitelist; a group followed by nothing, by a non-letter, by a word of 3 or
\* more letters or by a whitelisted short name is not discarded by this rule.
C14_LeftSideRule ==
    pc = "classified" =>
        /\ GroupsAreMaximalRuns
        /\ cite_list = ExtendAll(sup_groups)
        /\ \A g \in DOMAIN sup_groups :
              LET grp == sup_groups[g] IN
              /\ grp.left_side <=> ShortUnlistedWord(TextAfter(grp.last))
              /\ grp.left_side => grp.parsed = <<>>
              /\ (~grp.left_side /\ grp.has_seen_regular_text)
                    => grp.parsed = parse_citation(grp.combined_sup)

\* With a whitelist at hand, a well-formed group after regular text is
\* discarded before a short word that is not whitelisted, and a later group
\* followed by nothing is kept.
C14_Witness ==
    /\ pc = "classified"
    /\ author_names # {}
    /\ \E a, b \in DOMAIN sup_groups :
         /\ sup_groups[a].left_side
         /\ sup_groups[a].has_seen_regular_text
         /\ parse_citation(sup_groups[a].combined_sup) # <<>>
         /\ LeadingLetters(TextAfter(sup_groups[a].last), 2)
         /\ sup_groups[b].parsed # <<>>
         /\ TextAfter(sup_groups[b].last) = <<>>

\* A non-superscript token with non-blank text lies before position i.
RegularTextBefore(i) ==
    \E k \in 1..(i - 1) : ~runs[k][2] /\ \E m \in DOMAIN runs[k][1] : runs[k][1][m] # " "

\* C15: a superscript group before any non-superscript token with non-blank
\* text never produces a citation, whatever it holds and whatever follows
\* it; once such text has been seen the flag stays set for the scope.
C15_RightSideRule ==
    pc = "classified" =>
        /\ cite_list = ExtendAll(sup_groups)
        /\ \A g \in DOMAIN sup_groups :
              /\ sup_groups[g].has_seen_regular_text
                    <=> RegularTextBefore(sup_groups[g].first)
              /\ ~RegularTextBefore(sup_groups[g].first) => sup_groups[g].parsed = <<>>
        /\ \A g, h \in DOMAIN sup_groups :
              (g < h /\ sup_groups[g].has_seen_regular_text)
                  => sup_groups[h].has_seen_regular_text

\* A well-formed citation group that is not left-side, with only a blank
\* token before it, is dropped; a later group after regular text is kept.
C15_Witness ==
    /\ pc = "classified"
    /\ \E g, h \in DOMAIN sup_groups :
         /\ g < h
         /\ sup_groups[g].first > 1
         /\ ~sup_groups[g].has_seen_regular_text
         /\ ~sup_groups[g].left_side
         /\ parse_citation(sup_groups[g].combined_sup) # <<>>
         /\ sup_groups[g].parsed = <<>>
         /\ sup_groups[h].parsed # <<>>

\* ------------------------------------------------------------------
\* SpecLocate: extract_citation_locations on the runs of a document

\* The runs of a paragraph: a long word, a short word, the start of a
\* reference entry, a run without text; superscript '1', ',', and a
\* superscript run without text.
DocRuns ==
    { Run(<<"A", "b", "c">>, FALSE, TRUE),
      Run(<<"X", "e">>, FALSE, TRUE),
      Run(<<"1", ".", " ">>, FALSE, TRUE),
      Run(<<>>, FALSE, FALSE),
      Run(<<"1">>, TRUE, TRUE),
      Run(<<",">>, TRUE, TRUE),
      Run(<<>>, TRUE, FALSE) }

\* One paragraph of up to MaxParaRuns runs, or a paragraph of text followed
\* by a shorter one.
LocateDocuments ==
    {<<par>> : par \in SeqsUpTo(DocRuns, MaxParaRuns)}
    \cup {<<<<Run(<<"A", "b", "c">>, FALSE, TRUE)>>, par>> :
             par \in SeqsUpTo(DocRuns, MaxParaRuns - 2)}

InitLocate ==
    /\ NoBody
    /\ pc = "document"
    /\ document \in LocateDocuments
    /\ author_names \in { {}, {<<"X", "e">>} }
    /\ sup_text = <<>>
    /\ runs = <<>>
    /\ sup_groups = <<>>
    /\ cite_list = <<>>
    /\ modified = <<>>
    /\ doc_paragraphs = <<>>
    /\ doc_tables = EmptyDict
    /\ table_citations = EmptyDict
    /\ paragraph_results = <<>>
    /\ canonical_order = <<>>
    /\ conversion = EmptyDict
    /\ NoPlan
    /\ nums = <<>>
    /\ new_nums = <<>>
    /\ citation = <<>>
    /\ NoReferences

\* locations = extract_citation_locations(xml_content, author_names)
ExtractCitationLocations ==
    /\ pc = "document"
    /\ locations' = locate_citations(document, author_names)
    /\ pc' = "located"
    /\ UNCHANGED <<xmlVars, dupVars, numVars, runVars, doc_paragraphs, doc_tables, table_citations,
                   paragraph_results, canonical_order, conversion, plan, written>>

NextLocate == ExtractCitationLocations

SpecLocate == InitLocate /\ [][NextLocate]_vars

\* The locations recorded for paragraph p (p counts from 1), in order.
LocationsOf(p) == SelectSeq(locations, LAMBDA loc : loc.paragraph_index = p - 1)

\* The citation strings the locations of paragraph p stand for.
LocatedCitations(p) ==
    Flatten([l \in DOMAIN LocationsOf(p) |-> parse_citation(LocationsOf(p)[l].original_text)])

\* C16: for every paragraph that is not a reference entry the locations are,
\* in order, exactly the groups from which extract_citations_from_runs on the
\* paragraph's tokens yields a citation string, a comma-separated group
\* included.
C16_LocationsMatchClassifier ==
    pc = "located" =>
        \A p \in DOMAIN document :
            ~MatchesRefEntry(FullText(document[p])) =>
                LocatedCitations(p) = extract_citations_from_runs(xml_to_runs(document[p]),
                                                                  author_names)

\* C17: the run ranges of the locations of one paragraph are disjoint, each
\* has run_index <= end_run_index, and the locations are emitted in strictly
\* increasing run order.
C17_DisjointRanges ==
    pc = "located" =>
        /\ \A l \in DOMAIN locations :
              /\ 0 <= locations[l].run_index
              /\ locations[l].run_index <= locations[l].end_run_index
              /\ locations[l].end_run_index
                    < Len(document[locations[l].paragraph_index + 1])
        /\ \A l, m \in DOMAIN locations :
              (l < m /\ locations[l].paragraph_index = locations[m].paragraph_index)
                  => locations[l].end_run_index < locations[m].run_index

\* Two locations in one paragraph, the first spanning several runs.
C17_Witness ==
    /\ pc = "located"
    /\ \E l, m \in DOMAIN locations :
         /\ l < m
         /\ locations[l].paragraph_index = locations[m].paragraph_index
         /\ locations[l].run_index < locations[l].end_run_index

\* ------------------------------------------------------------------
\* Claim on the modification plan (SpecMain)

ChangedTags == {"merged", "duplicate", "renumbered", "removed"}

\* C18: a location is tagged 'unchanged' iff its replacement text equals
\* its original text; every location whose replacement text differs is
\* tagged merged, duplicate, renumbered or removed, and those are exactly
\* the locations create_modified_document rewrites.
C18_UnchangedIffSameText ==
    pc = "modified" =>
        \A l \in DOMAIN locations :
            /\ plan[l].change_type = "unchanged"
                  <=> plan[l].new_text = locations[l].original_text
            /\ plan[l].change_type \in ChangedTags
                  <=> plan[l].new_text # locations[l].original_text
            /\ plan[l].change_type \in ChangedTags
                  <=> written[l] # locations[l].original_text

\* ------------------------------------------------------------------
\* SpecRewrite: the tail of main on the runs of a document: detect the
\* duplicates, locate the citations, write the modified document

RewriteRuns ==
    { Run(<<"A", "b", "c">>, FALSE, TRUE),
      Run(<<"1", ".", " ">>, FALSE, TRUE),
      Run(<<"2">>, TRUE, TRUE),
      Run(<<"3">>, TRUE, TRUE),
      Run(<<"-">>, TRUE, TRUE),
      Run(<<>>, TRUE, FALSE) }

\* A reference entry that carries a superscript.
BibEntry == <<Run(<<"1", ".", " ">>, FALSE, TRUE), Run(<<"3">>, TRUE, TRUE)>>

RewriteDocuments ==
    {<<par>> : par \in SeqsUpTo(RewriteRuns, MaxRewriteRuns)}
    \cup {<<BibEntry, par>> : par \in SeqsUpTo(RewriteRuns, MaxRewriteRuns - 1)}

\* At most one pair of references is similar.
RewriteSimilar(refs) == {{}} \cup {{pair} : pair \in RefPairs(refs)}

InitRewrite ==
    /\ NoBody
    /\ pc = "loaded"
    /\ document \in RewriteDocuments
    /\ author_names = {}
    /\ references = 1..MaxRewriteRef
    /\ similar \in RewriteSimilar(references)
    /\ duplicates = EmptyDict
    /\ max_ref = 0
    /\ dense_map = EmptyDict
    /\ sup_text = <<>>
    /\ runs = <<>>
    /\ sup_groups = <<>>
    /\ cite_list = <<>>
    /\ modified = <<>>
    /\ doc_paragraphs = <<>>
    /\ doc_tables = EmptyDict
    /\ table_citations = EmptyDict
    /\ paragraph_results = <<>>
    /\ canonical_order = <<>>
    /\ conversion = EmptyDict
    /\ NoPlan
    /\ nums = <<>>
    /\ new_nums = <<>>
    /\ citation = <<>>

\* duplicates = detect_duplicate_references(references)
RewriteDetect ==
    /\ pc = "loaded"
    /\ duplicates' = detect_duplicate_references(references, similar)
    /\ pc' = "detected"
    /\ UNCHANGED <<xmlVars, runVars, references, similar, max_ref, dense_map, numVars, docVars>>

\* main: max_ref, dense_map, locations, create_modified_document
RewriteDocument ==
    /\ pc = "detected"
    /\ max_ref' = MaxOf(references)
    /\ dense_map' = build_densification_map(duplicates, max_ref')
    /\ locations' = locate_citations(document, author_names)
    /\ modified' = write_modified_document(document, locations', duplicates, dense_map')
    /\ pc' = "modified"
    /\ UNCHANGED <<xmlVars, references, similar, duplicates, numVars, doc_paragraphs, doc_tables,
                   table_citations, paragraph_results, canonical_order, conversion,
                   plan, written, sup_text, runs, author_names, sup_groups, cite_list,
                   document>>

NextRewrite == RewriteDetect \/ RewriteDocument

SpecRewrite == InitRewrite /\ [][NextRewrite]_vars

\* Run r of paragraph p (both counted from 1) lies in the range of location l.
InRange(l, p, r) ==
    /\ locations[l].paragraph_index = p - 1
    /\ locations[l].run_index <= r - 1
    /\ r - 1 <= locations[l].end_run_index

\* The replacement text of location l.
Replacement(l) == NewText(locations[l].original_text, duplicates, dense_map)

\* Every run outside all location ranges keeps its text.
OutsideUnchanged ==
    \A p \in DOMAIN document : \A r \in DOMAIN document[p] :
        (\A l \in DOMAIN locations : ~InRange(l, p, r))
            => modified.document[p][r] = document[p][r]

\* C19: applying the plan changes only the text of runs inside the range of
\* some location: for a location whose replacement differs from its text the
\* first run receives the replacement and the other runs of the range are
\* emptied; every run outside all ranges, the runs of reference entries
\* included, keeps its text.
C19_OnlyLocationRunsRewritten ==
    pc = "modified" =>
        /\ OutsideUnchanged
        /\ \A l \in DOMAIN locations :
              LET p == locations[l].paragraph_index + 1 IN
              IF Replacement(l) = locations[l].original_text
              THEN \A r \in DOMAIN document[p] :
                       InRange(l, p, r) => modified.document[p][r] = document[p][r]
              ELSE \A r \in DOMAIN document[p] :
                       InRange(l, p, r) =>
                           modified.document[p][r][1] =
                               (IF r - 1 = locations[l].run_index
                                THEN Replacement(l) ELSE <<>>)

\* ------------------------------------------------------------------
\* Claim on Table references without a table (SpecOrder)

\* A Table reference whose numeral has no entry in table_citations.
AbsentTable(item) == item.kind = "table" /\ item.roman \notin DOMAIN table_citations

IsPresent(item) == ~AbsentTable(item)

RECURSIVE FirstOccurrences(_, _)
\* The list without the numbers met before.
FirstOccurrences(s, seen) ==
    IF s = <<>> THEN <<>>
    ELSE IF Head(s) \in seen THEN FirstOccurrences(Tail(s), seen)
    ELSE <<Head(s)>> \o FirstOccurrences(Tail(s), seen \cup {Head(s)})

\* The numbers of the document in reading order, the Table references
\* without a table left out.
ReadingPresent ==
    LET items == SelectSeq(Flatten(doc_paragraphs), IsPresent)
    IN Flatten([i \in DOMAIN items |-> ReadItem(items[i])])

\* C20: a Table reference whose numeral has no entry in the table map stays
\* in its paragraph's citation list, adds no number to the canonical order
\* and stops nothing: the numbers of the other citations are appended in
\* order as if the reference were not there.
C20_AbsentTable ==
    pc = "ordered" =>
        /\ \A p \in DOMAIN doc_paragraphs : \A k \in DOMAIN doc_paragraphs[p] :
              AbsentTable(doc_paragraphs[p][k])
                  => (TableWord \o <<" ">> \o doc_paragraphs[p][k].roman)
                        \in Range(paragraph_results[p][3])
        /\ canonical_order = FirstOccurrences(ReadingPresent, {})

\* A paragraph with a marker, a reference to a table that is not there, and
\* a marker whose numbers are met for the first time.
C20_Witness ==
    /\ pc = "ordered"
    /\ \E p \in DOMAIN doc_paragraphs :
         /\ Len(doc_paragraphs[p]) = 3
         /\ doc_paragraphs[p][1].kind = "citation"
         /\ AbsentTable(doc_paragraphs[p][2])
         /\ doc_paragraphs[p][3].kind = "citation"
         /\ Range(doc_paragraphs[p][3].numbers) \ Range(doc_paragraphs[p][1].numbers) # {}
         /\ Range(doc_paragraphs[p][3].numbers) \subseteq Range(canonical_order)

\* ------------------------------------------------------------------
\* Claim on build_conversion_table (SpecOrder)

\* C21: the conversion table holds the entry old -> p exactly for the
\* numbers old at 1-based position p of the canonical order with old # p,
\* and no other key; a number at its own position gets no entry.
C21_ConversionEntries ==
    pc = "converted" =>
        /\ DOMAIN conversion =
              {canonical_order[p] : p \in {q \in DOMAIN canonical_order :
                                              canonical_order[q] # q}}
        /\ \A p \in DOMAIN canonical_order :
              canonical_order[p] # p => conversion[canonical_order[p]] = p

\* A canonical order with a number at its own position and one elsewhere.
C21_Witness ==
    /\ pc = "converted"
    /\ \E p, q \in DOMAIN canonical_order :
         /\ canonical_order[p] = p
         /\ canonical_order[q] # q
         /\ canonical_order[q] \in DOMAIN conversion
         /\ p \notin DOMAIN conversion

\* ------------------------------------------------------------------
\* Claim on the kept references (SpecDetect)

\* C28: after detect_duplicate_references no two kept references are
\* similar: of every pair n1 < n2 whose similarity reaches the threshold at
\* least one is reported as a duplicate.
C28_NoSimilarKept ==
    pc = "detected" =>
        \A pair \in similar :
            pair[1] \in DOMAIN duplicates \/ pair[2] \in DOMAIN duplicates

\* A reference with two later duplicates, and a similar pair of which only
\* the first is a duplicate.
C28_Witness ==
    /\ pc = "detected"
    /\ \E a, b \in DOMAIN duplicates : a # b /\ duplicates[a] = duplicates[b]
    /\ \E pair \in similar :
         pair[1] \in DOMAIN duplicates /\ pair[2] \notin DOMAIN duplicates

\* ------------------------------------------------------------------
\* SpecScope: extract_citations_from_runs on longer scopes over fewer texts,
\* with no whitelist

\* One regular text, the superscript texts citations are written with, and
\* a superscript text that adds a malformed part to its group.
ScopeTokens ==
    { Token(<<"A", "b", "c">>, FALSE), Token(<<"1">>, TRUE), Token(<<",">>, TRUE),
      Token(<<"-">>, TRUE), Token(<<",", "x">>, TRUE) }

InitScope ==
    /\ NoBody
    /\ pc = "tokens"
    /\ runs \in SeqsUpTo(ScopeTokens, MaxScopeRuns)
    /\ author_names = {}
    /\ sup_text = <<>>
    /\ sup_groups = <<>>
    /\ cite_list = <<>>
    /\ document = <<>>
    /\ modified = <<>>
    /\ doc_paragraphs = <<>>
    /\ doc_tables = EmptyDict
    /\ table_citations = EmptyDict
    /\ paragraph_results = <<>>
    /\ canonical_order = <<>>
    /\ conversion = EmptyDict
    /\ NoPlan
    /\ nums = <<>>
    /\ new_nums = <<>>
    /\ citation = <<>>
    /\ NoReferences

NextScope == ExtractCitationsFromRuns

SpecScope == InitScope /\ [][NextScope]_vars

\* The texts of the tokens i..j, one after the other.
TextOfTokens(i, j) ==
    LET lens == [k \in i..j |-> Len(runs[k][1])]
        RECURSIVE At(_, _)
        At(k, n) == IF n <= lens[k] THEN runs[k][1][n] ELSE At(k + 1, n - lens[k])
        RECURSIVE Total(_)
        Total(k) == IF k > j THEN 0 ELSE lens[k] + Total(k + 1)
    IN [n \in 1..Total(i) |-> At(i, n)]

\* The groups that produced a citation string, and how many of them come up
\* to group g.
EmittingGroups == {g \in DOMAIN sup_groups : sup_groups[g].parsed # <<>>}

EmitRank(g) == Cardinality({h \in EmittingGroups : h <= g})

\* C24: every maximal run of consecutive superscript tokens is one group,
\* whose texts are concatenated and parsed once: no token is in two groups
\* and a group yields at most one citation string. The list holds the
\* strings of the groups in document order, one entry per yielding group,
\* with no deduplication.
C24_GroupsMergedInOrder ==
    pc = "classified" =>
        /\ GroupsAreMaximalRuns
        /\ \A g \in DOMAIN sup_groups :
              LET grp == sup_groups[g] IN
              /\ grp.combined_sup = TextOfTokens(grp.first, grp.last)
              /\ Len(grp.parsed) <= 1
              /\ grp.parsed # <<>> => grp.parsed = parse_citation(TextOfTokens(grp.first, grp.last))
        /\ Len(cite_list) = Cardinality(EmittingGroups)
        /\ \A g \in EmittingGroups : cite_list[EmitRank(g)] = sup_groups[g].parsed[1]

\* A group of several tokens gives one citation string, and the same string
\* is in the list twice because a later group gives it again.
C24_Witness ==
    /\ pc = "classified"
    /\ \E g, h \in EmittingGroups :
         /\ g < h
         /\ sup_groups[g].last > sup_groups[g].first
         /\ sup_groups[g].parsed = sup_groups[h].parsed
         /\ \E m, n \in DOMAIN cite_list : m < n /\ cite_list[m] = cite_list[n]

\* A group the scan hands to parse_citation: regular text before it, and no
\* short unlisted word right after it.
IsParsedGroup(g) ==
    /\ RegularTextBefore(sup_groups[g].first)
    /\ ~ShortUnlistedWord(TextAfter(sup_groups[g].last))

\* The non-empty comma-separated parts of a group's text that are neither a
\* number nor a range.
MalformedParts(text) ==
    {k \in DOMAIN PartsOf(text) : PartsOf(text)[k] # <<>> /\ ~IsNumberOrRange(PartsOf(text)[k])}

LongText ==
    <<"T", "h", "i", "s", " ", "p", "a", "r", "a", "g", "r", "a", "p", "h", " ", "i", "s",
    " ", "l", "o", "n", "g", " ", "e", "n", "o", "u", "g", "h", ",", " ", "s", "e", "e",
    " ", "T", "a", "b", "l", "e", " ", "I", " ">>

\* The runs of the paragraphs: the long text, a text with a plural,
\* lower-case Table reference, a text in which no Table reference starts at
\* a word, the start of a bibliography entry, and a superscript.
ParaRuns ==
    { Run(LongText, FALSE, TRUE),
      Run(<<"o", "r", " ", "t", "a", "b", "l", "e", "s", " ", "i", "v", ",", " ">>, FALSE, TRUE),
      Run(<<"S", "t", "a", "b", "l", "e", " ", "I", "n">>, FALSE, TRUE),
      Run(<<"1", ".", " ">>, FALSE, TRUE),
      Run(<<"1">>, TRUE, TRUE) }

\* The cells of the tables: text with a citation after it, and a
\* superscript alone.
Cells ==
    { <<Run(<<"A", "b", "c">>, FALSE, TRUE), Run(<<"1">>, TRUE, TRUE)>>,
      <<Run(<<"2">>, TRUE, TRUE)>> }

Rows == SeqsUpTo(Cells, MaxCells)

Tables == SeqsUpTo(Rows, MaxCells)

LabelI == Paragraph(<<Run(<<"T", "A", "B", "L", "E", " ", "I", ".", " ", "T", "i", "t", "l", "e">>, FALSE, TRUE)>>)

LabelII == Paragraph(<<Run(<<"T", "a", "b", "l", "e", " ", "i", "i">>, FALSE, TRUE)>>)

\* A text of more than MinParagraphLen characters that names no table.
PlainText ==
    <<"T", "h", "i", "s", " ", "p", "a", "r", "a", "g", "r", "a", "p", "h", " ", "i", "s",
      " ", "l", "o", "n", "g", " ", "e", "n", "o", "u", "g", "h", " ", "a", "n", "d", " ",
      "c", "i", "t", "e", "s">>

\* Two label paragraphs, a long paragraph with a citation that sets no
\* label, and two tables.
BodyElements ==
    { LabelI, LabelII,
      Paragraph(<<Run(PlainText, FALSE, TRUE), Run(<<"3">>, TRUE, TRUE)>>),
      Table(<<<<<<Run(<<"A", "b", "c">>, FALSE, TRUE), Run(<<"1">>, TRUE, TRUE)>>>>>>),
      Table(<<<<<<Run(<<"A", "b", "c">>, FALSE, TRUE), Run(<<"2">>, TRUE, TRUE)>>,
               <<Run(<<"4">>, TRUE, TRUE)>>>>,
             <<<<Run(<<"A", "b", "c">>, FALSE, TRUE), Run(<<"5">>, TRUE, TRUE),
                 Run(<<"-">>, TRUE, TRUE), Run(<<"6">>, TRUE, TRUE)>>>>>>) }

\* One paragraph of any runs; any body of the elements; one labelled table
\* of any cells.
Bodies ==
    {<<Paragraph(par)>> : par \in SeqsUpTo(ParaRuns, MaxExtractRuns)}
    \cup SeqsUpTo(BodyElements, MaxBody)
    \cup {<<LabelI, Table(tbl)>> : tbl \in Tables}

InitExtract ==
    /\ pc = "xml"
    /\ body \in Bodies
    /\ para_extracts = <<>>
    /\ author_names = {}
    /\ sup_text = <<>>
    /\ runs = <<>>
    /\ sup_groups = <<>>
    /\ cite_list = <<>>
    /\ document = <<>>
    /\ modified = <<>>
    /\ doc_paragraphs = <<>>
    /\ doc_tables = EmptyDict
    /\ table_citations = EmptyDict
    /\ paragraph_results = <<>>
    /\ canonical_order = <<>>
    /\ conversion = EmptyDict
    /\ NoPlan
    /\ nums = <<>>
    /\ new_nums = <<>>
    /\ citation = <<>>
    /\ NoReferences

\* table_citations = process_tables(xml_str, author_names)
ProcessTables ==
    /\ pc = "xml"
    /\ table_citations' = process_tables(body, author_names)
    /\ pc' = "tables"
    /\ UNCHANGED <<body, para_extracts, dupVars, numVars, runVars, doc_paragraphs,
                   doc_tables, paragraph_results, canonical_order, conversion, planVars>>

\* paragraph_results = process_paragraphs(xml_str, author_names)
ProcessParagraphs ==
    /\ pc = "tables"
    /\ para_extracts' =
         [p \in DOMAIN AllParagraphs(body) |->
             extract_paragraph_with_citations(AllParagraphs(body)[p], author_names)]
    /\ paragraph_results' = process_paragraphs(body, author_names)
    /\ pc' = "paragraphs"
    /\ UNCHANGED <<body, dupVars, numVars, runVars, doc_paragraphs, doc_tables,
                   table_citations, canonical_order, conversion, planVars>>

NextExtract == ProcessTables \/ ProcessParagraphs

SpecExtract == InitExtract /\ [][NextExtract]_vars

\* The runs of paragraph p of the document, as the classifier gets them.
ParagraphRuns(p) == xml_to_runs(AllParagraphs(body)[p])

\* The citation list extract_paragraph_with_citations returned for paragraph p.
ParagraphCitations(p) == para_extracts[p][2]

IsTableString(c) == StartsWith(c, TableWord \o <<" ">>)

\* The positions of the text at which a match of the Table pattern starts,
\* in text order, and the strings the matches stand for.
TableStarts(text) ==
    SortedSet({i \in DOMAIN text : PatternMatchAt(ROMAN_PATTERN, text, i) # <<>>})

TableStringAt(text, i) ==
    TableWord \o <<" ">> \o Upper(PatternMatchAt(ROMAN_PATTERN, text, i)[1].roman)

TableStrings(text) ==
    [k \in DOMAIN TableStarts(text) |-> TableStringAt(text, TableStarts(text)[k])]

\* The list in which every Table reference stands where its match starts in
\* the text: before the citations of the superscript groups that come after
\* that point, after those of the groups that come before it.
InPositionList(rs) ==
    LET gs   == ScanRuns(rs, 1, FALSE, author_names)
        text == NonSuperscriptText(rs)
        Offset(k) == Len(NonSuperscriptText(SubSeq(rs, 1, k - 1)))
        Between(lo, hi) ==
            LET starts == SelectSeq(TableStarts(text), LAMBDA i : lo < i /\ i <= hi)
            IN [k \in DOMAIN starts |-> TableStringAt(text, starts[k])]
        RECURSIVE Merge(_, _)
        Merge(g, lo) ==
            IF g > Len(gs) THEN Between(lo, Len(text))
            ELSE Between(lo, Offset(gs[g].first)) \o gs[g].parsed
                 \o Merge(g + 1, Offset(gs[g].first))
    IN Merge(1, 0)

\* C22: a Table reference in paragraph text is recorded in the paragraph's
\* citation list at its position in the text, between the numeric
\* citations that precede it and those that follow it.
C22_TableRefsInPosition ==
    pc = "paragraphs" =>
        \A p \in DOMAIN para_extracts : ParagraphCitations(p) = InPositionList(ParagraphRuns(p))

LabelAt(i) == IF body[i].tag = "p" THEN ParagraphLabel(body[i].runs) ELSE <<>>

LabelInForce(i) ==
    LET before == {j \in 1..(i - 1) : LabelAt(j) # <<>>} IN
    IF before = {} THEN <<>>
    ELSE LabelAt(CHOOSE j \in before : \A k \in before : k <= j)

\* The positions of the tables met under the label, in document order.
TablesOf(roman) ==
    SortedSet({i \in DOMAIN body : body[i].tag = "tbl" /\ LabelInForce(i) = roman})

\* C26: every table of the body belongs to the label of the most recent
\* paragraph before it that matched TABLE <roman>, a table before any label
\* to no group; the citations of a label are those of its tables, row by
\* row, one table after the other in document order, tables after a
\* repetition of the label included.
C26_TablesFollowLabel ==
    pc \in {"tables", "paragraphs"} =>
        /\ DOMAIN table_citations = {LabelAt(i) : i \in DOMAIN body} \ {<<>>}
        /\ \A roman \in DOMAIN table_citations :
              LET tables == TablesOf(roman) IN
              table_citations[roman] =
                  Flatten([k \in DOMAIN tables |->
                              extract_table_citations(body[tables[k]].rows, author_names)])

\* A table with a citation comes before any label and is in no group; a
\* label is repeated, and its citations are those of the table before the
\* repetition followed by those of the table after it.
C26_Witness ==
    /\ pc = "tables"
    /\ body # <<>>
    /\ body[1].tag = "tbl"
    /\ extract_table_citations(body[1].rows, author_names) # <<>>
    /\ \E i, j, k, l \in DOMAIN body :
         /\ i < j /\ j < k /\ k < l
         /\ LabelAt(i) # <<>>
         /\ LabelAt(k) = LabelAt(i)
         /\ body[j].tag = "tbl" /\ body[l].tag = "tbl"
         /\ body[j] # body[l]
         /\ Len(TablesOf(LabelAt(i))) = 2
         /\ Len(table_citations[LabelAt(i)]) > 1
         /\ table_citations[LabelAt(i)] =
               extract_table_citations(body[j].rows, author_names)
               \o extract_table_citations(body[l].rows, author_names)

\* The citations of one scope, a table cell or a paragraph, classified on
\* its own.
ScopeCitations(par) == extract_citations_from_runs(xml_to_runs(par), author_names)

\* The cells of the tables met under the label, row by row.
CellsOf(roman) ==
    LET tables == TablesOf(roman) IN
    Flatten([k \in DOMAIN tables |-> Flatten(body[tables[k]].rows)])

\* The cells of all tables of the body.
AllCells == UNION {Range(Flatten(body[i].rows)) : i \in {j \in DOMAIN body : body[j].tag = "tbl"}}

\* C27: the seen-text state is local to one scope. The citations of a label
\* are, cell after cell, what the classifier gives on the tokens of that
\* cell alone, and the numeric citations of a paragraph are what it gives on
\* the tokens of that paragraph alone; a superscript group at the start of
\* a cell yields nothing, whatever the earlier cells hold.
C27_ScopeLocal ==
    /\ pc \in {"tables", "paragraphs"} =>
          /\ \A roman \in DOMAIN table_citations :
                LET cells == CellsOf(roman) IN
                table_citations[roman] =
                    Flatten([c \in DOMAIN cells |-> ScopeCitations(cells[c])])
          /\ \A cell \in AllCells :
                (cell # <<>> /\ cell[1][2]) =>
                    ScanRuns(xml_to_runs(cell), 1, FALSE, author_names)[1].parsed = <<>>
    /\ pc = "paragraphs" =>
          \A p \in DOMAIN para_extracts :
              SelectSeq(ParagraphCitations(p), LAMBDA c : ~IsTableString(c))
                  = ScopeCitations(AllParagraphs(body)[p])

\* In a table under a label, a cell with regular text is followed in its
\* row by a cell that starts with a well-formed superscript, and the
\* label's citations do not hold that superscript's citation.
C27_Witness ==
    /\ pc = "tables"
    /\ \E i \in DOMAIN body :
         /\ body[i].tag = "tbl"
         /\ LabelInForce(i) # <<>>
         /\ \E r \in DOMAIN body[i].rows :
              \E k \in 1..(Len(body[i].rows[r]) - 1) :
                 LET row == body[i].rows[r] IN
                 /\ \E n \in DOMAIN row[k] : ~row[k][n][2] /\ Strip(row[k][n][1]) # <<>>
                 /\ row[k + 1][1][2]
                 /\ parse_citation(row[k + 1][1][1]) # <<>>
                 /\ \A c \in DOMAIN table_citations[LabelInForce(i)] :
                       table_citations[LabelInForce(i)][c] # parse_citation(row[k + 1][1][1])[1]

====
